---- MODULE Spec2Model ----
(***************************************************************************)
(* A model of the Kibi text editor (src/src/main.rs): the document (rows,  *)
(* render form, highlight), the cursor and the viewport, the main key loop *)
(* with its quit gate, the prompt loop with incremental search, and load / *)
(* save.  Characters are one-character strings, a String is a sequence of  *)
(* them, a row index and a column are 0-based as in the source, and an     *)
(* Option is a sequence of length 0 (None) or 1 (Some).                    *)
(***************************************************************************)
EXTENDS Integers, Sequences, FiniteSets, TLC

\* ------------------------------------------------------------ constants
TAB_STOP == 8
QUIT_TIMES == 3
HL_HIGHLIGHT_NUMBERS == 1
HL_HIGHLIGHT_STRINGS == 2

\* The terminal size read once by EditorConfig::new (rows minus the two bars).
screen_rows == 2
screen_cols == 4

\* ------------------------------------------------------------ bounds
\* Longest row text the row-function specification draws.
MaxRowLen == 8
\* Longest file content (bytes) the load specification draws.
MaxFileLen == 4
\* Edits are enabled while the dirty counter is below this.
MaxDirty == 2
\* Rows are inserted while the document has fewer rows than this.
MaxRows == 3
\* An edit is taken when no row gets longer than this.
MaxLen == 5
\* Longest prompt buffer.
MaxBuf == 3
\* Largest cursor column, rendered column and scroll offset the scroll
\* specification draws.
MaxOff == 4
\* Longest stream of read outcomes the decoder specification draws.
MaxInput == 4
\* Longest source file (bytes) the comment specification draws.
MaxSrcLen == 6

\* ------------------------------------------------------------ Option, chars
None == <<>>
Some(v) == <<v>>
IsSome(o) == Len(o) = 1
Unwrap(o) == o[1]

TAB == "\t"
LF == "\n"
CR == "\r"
NUL == "NUL"
Digits == {"0", "1", "2", "3", "4", "5", "6", "7", "8", "9"}

\* enum EditorHighlight
Normal == "Normal"
Number == "Number"
Match == "Match"
HlString == "HlString"
HlComment == "HlComment"
HlMComment == "HlMComment"
HlKeyword1 == "HlKeyword1"
HlKeyword2 == "HlKeyword2"

Min(a, b) == IF a < b THEN a ELSE b

\* s[from..to) with 0-based bounds, as a Rust slice.
Slice(s, from, to) == SubSeq(s, from + 1, to)

\* str::find: the 0-based index of the first occurrence of q in s.
Find(s, q) ==
    LET hits == {i \in 0..(Len(s) - Len(q)) : Slice(s, i, i + Len(q)) = q}
    IN IF hits = {} THEN None
       ELSE Some(CHOOSE i \in hits : \A k \in hits : i <= k)

Contains(s, q) == IsSome(Find(s, q))

\* ------------------------------------------------------------ EditorRow
\* The row editor_insert_row builds before update_row renders it.
NewRow(s, at) ==
    [size |-> Len(s), chars |-> s, render |-> <<>>, r_size |-> 0,
     hl |-> None, idx |-> at, hl_open_comment |-> FALSE]

RECURSIVE PadToTabStop(_)
PadToTabStop(render) ==
    IF Len(render) % TAB_STOP # 0 THEN PadToTabStop(Append(render, " "))
    ELSE render

RECURSIVE RenderChars(_, _)
RenderChars(chars, render) ==
    IF chars = <<>> THEN render
    ELSE IF Head(chars) = TAB
         THEN RenderChars(Tail(chars), PadToTabStop(Append(render, " ")))
         ELSE RenderChars(Tail(chars), Append(render, Head(chars)))

\* A tab that already stands on a tab stop renders as nothing.
update_row_NoFirstSpace(row) ==
    LET F[k \in 0..Len(row.chars)] ==
            IF k = 0 THEN <<>>
            ELSE IF row.chars[k] = TAB THEN PadToTabStop(F[k - 1])
                 ELSE Append(F[k - 1], row.chars[k])
        render == F[Len(row.chars)]
    IN [row EXCEPT !.r_size = Len(render), !.render = render]

update_row(row) ==
    LET render == RenderChars(row.chars, <<>>)
    IN [row EXCEPT !.r_size = Len(render), !.render = render]

row_insert_char(row, at, c) ==
    LET at1 == Min(at, Len(row.chars))
    IN update_row([row EXCEPT
           !.chars = Slice(row.chars, 0, at1) \o <<c>>
                         \o Slice(row.chars, at1, Len(row.chars)),
           !.size = row.size + 1])

\* The cached size is left as it was.
row_delete_char(row, at) ==
    IF at >= Len(row.chars) THEN row
    ELSE update_row([row EXCEPT
             !.chars = Slice(row.chars, 0, at)
                           \o Slice(row.chars, at + 1, Len(row.chars))])

row_append_string(row, s) ==
    update_row([row EXCEPT !.chars = row.chars \o s,
                           !.size = Len(row.chars) + Len(s)])

row_highlight_match(row, match_index, query) ==
    IF IsSome(row.hl) /\ match_index + Len(query) <= Len(Unwrap(row.hl))
    THEN [row EXCEPT !.hl = Some([j \in 1..Len(Unwrap(row.hl)) |->
             IF match_index <= j - 1 /\ j - 1 < match_index + Len(query)
             THEN Match ELSE Unwrap(row.hl)[j]])]
    ELSE row

\* ------------------------------------------------------------ column mapping
RECURSIVE CxToRxLoop(_, _, _, _)
CxToRxLoop(chars, cx, j, rx) ==
    IF j >= Len(chars) \/ j >= cx THEN rx
    ELSE CxToRxLoop(chars, cx, j + 1,
             IF chars[j + 1] = TAB
             THEN rx + ((TAB_STOP - 1) - (rx % TAB_STOP)) + 1
             ELSE rx + 1)

editor_row_cx_to_rx(row, cx) == CxToRxLoop(row.chars, cx, 0, 0)

RECURSIVE RxToCxLoop(_, _, _, _)
RxToCxLoop(chars, rx, cx, cur_rx) ==
    IF cx >= Len(chars) THEN Len(chars)
    ELSE LET w == IF chars[cx + 1] = TAB
                  THEN ((TAB_STOP - 1) - (cur_rx % TAB_STOP)) + 1
                  ELSE 1
         IN IF cur_rx + w >= rx THEN cx
            ELSE RxToCxLoop(chars, rx, cx + 1, cur_rx + w)

editor_row_rx_to_cx(row, rx) == RxToCxLoop(row.chars, rx, 0, 0)

\* ------------------------------------------------------------ syntax profiles
RUST_EXTENSION == <<<<".", "r", "s">>, <<".", "t", "o", "m", "l">>>>

RUST_HL_KEYWORDS ==
    <<<<"i", "f">>,
      <<"e", "l", "s", "e">>,
      <<"w", "h", "i", "l", "e">>,
      <<"f", "o", "r">>,
      <<"l", "o", "o", "p">>,
      <<"b", "r", "e", "a", "k">>,
      <<"c", "o", "n", "t", "i", "n", "u", "e">>,
      <<"r", "e", "t", "u", "r", "n">>,
      <<"m", "a", "t", "c", "h">>,
      <<"s", "t", "r", "u", "c", "t", "|">>,
      <<"e", "n", "u", "m", "|">>,
      <<"i", "m", "p", "l", "|">>,
      <<"t", "r", "a", "i", "t", "|">>,
      <<"f", "n", "|">>,
      <<"l", "e", "t", "|">>,
      <<"m", "u", "t", "|">>,
      <<"c", "o", "n", "s", "t", "|">>,
      <<"s", "t", "a", "t", "i", "c", "|">>,
      <<"p", "u", "b", "|">>,
      <<"m", "o", "d", "|">>,
      <<"u", "s", "e", "|">>,
      <<"c", "r", "a", "t", "e", "|">>,
      <<"s", "u", "p", "e", "r", "|">>,
      <<"s", "e", "l", "f", "|">>>>

RUST_TYPES ==
    <<<<"i", "8">>,
      <<"i", "1", "6">>,
      <<"i", "3", "2">>,
      <<"i", "6", "4">>,
      <<"i", "1", "2", "8">>,
      <<"i", "s", "i", "z", "e">>,
      <<"u", "8">>,
      <<"u", "1", "6">>,
      <<"u", "3", "2">>,
      <<"u", "6", "4">>,
      <<"u", "1", "2", "8">>,
      <<"u", "s", "i", "z", "e">>,
      <<"f", "3", "2">>,
      <<"f", "6", "4">>,
      <<"b", "o", "o", "l">>,
      <<"c", "h", "a", "r">>,
      <<"s", "t", "r">>,
      <<"S", "t", "r", "i", "n", "g">>,
      <<"V", "e", "c">>,
      <<"O", "p", "t", "i", "o", "n">>,
      <<"R", "e", "s", "u", "l", "t">>>>

HLDB ==
    <<[filetype |-> "Rust",
       filematch |-> RUST_EXTENSION,
       keywords |-> RUST_HL_KEYWORDS,
       types |-> RUST_TYPES,
       single_line_comment_start |-> <<"/", "/">>,
       multiline_comment_start |-> <<"/", "*">>,
       multiline_comment_end |-> <<"*", "/">>,
       flags |-> {HL_HIGHLIGHT_NUMBERS, HL_HIGHLIGHT_STRINGS}]>>

\* &'static EditorSyntax: the profile an index into HLDB refers to.
Syntax(k) == HLDB[k + 1]

is_separator(c) ==
    \/ c \in {" ", TAB, LF, CR}
    \/ c = NUL
    \/ c \in {",", ".", "(", ")", "+", "-", "/", "*", "=", "~", "%", "<", ">",
              "[", "]", ";"}

\* ------------------------------------------------------------ highlighter
\* render[i..i + len(pat)] == pat, false when the slice would run past the end.
StartsAt(render, i, pat) ==
    /\ i + Len(pat) <= Len(render)
    /\ Slice(render, i, i + Len(pat)) = pat

Fill(hl, from, to, class) ==
    [j \in 1..Len(hl) |-> IF from <= j - 1 /\ j - 1 < to THEN class ELSE hl[j]]

\* A word of a keyword list matches at i when it stands there followed by a
\* separator or the end of the row.
WordMatches(render, i, word) ==
    /\ StartsAt(render, i, word)
    /\ \/ i + Len(word) >= Len(render)
       \/ is_separator(render[i + Len(word) + 1])

\* The first entry of syntax.keywords that matches at i: its length and class.
RECURSIVE FirstKeyword(_, _, _, _)
FirstKeyword(keywords, k, render, i) ==
    IF k > Len(keywords) THEN None
    ELSE LET keyword == keywords[k]
             klen == Len(keyword)
             kw2 == keyword[klen] = "|"
             actual_klen == IF kw2 THEN klen - 1 ELSE klen
             keyword_to_match == Slice(keyword, 0, actual_klen)
         IN IF WordMatches(render, i, keyword_to_match)
            THEN Some([len |-> actual_klen,
                       class |-> IF kw2 THEN HlKeyword2 ELSE HlKeyword1])
            ELSE FirstKeyword(keywords, k + 1, render, i)

RECURSIVE FirstType(_, _, _, _)
FirstType(types, k, render, i) ==
    IF k > Len(types) THEN None
    ELSE IF WordMatches(render, i, types[k])
         THEN Some([len |-> Len(types[k]), class |-> HlKeyword2])
         ELSE FirstType(types, k + 1, render, i)

MatchKeyword(syntax, render, i) ==
    LET kw == FirstKeyword(syntax.keywords, 1, render, i)
    IN IF IsSome(kw) THEN kw ELSE FirstType(syntax.types, 1, render, i)

\* The scan takes a single-line-comment delimiter inside a block comment too.
RECURSIVE SyntaxScan_LineCommentAnywhere(_, _, _, _, _, _)
SyntaxScan_LineCommentAnywhere(syntax, render, i, hl, prev_sep, in_comment) ==
    IF ~(i < Len(render)) THEN [hl |-> hl, in_comment |-> in_comment]
    ELSE
    LET c == render[i + 1]
        prev_hl == IF i > 0 THEN hl[i] ELSE Normal
        scs == syntax.single_line_comment_start
        mcs == syntax.multiline_comment_start
        mce == syntax.multiline_comment_end
        multi == Len(mcs) > 0 /\ Len(mce) > 0
        kw == IF prev_sep THEN MatchKeyword(syntax, render, i) ELSE None
    IN
    IF Len(scs) > 0 /\ StartsAt(render, i, scs)
    THEN [hl |-> Fill(hl, i, Len(hl), HlComment), in_comment |-> in_comment]
    ELSE IF multi /\ in_comment
    THEN IF StartsAt(render, i, mce)
         THEN SyntaxScan_LineCommentAnywhere(syntax, render, i + Len(mce),
                         Fill(hl, i, i + Len(mce), HlMComment), TRUE, FALSE)
         ELSE SyntaxScan_LineCommentAnywhere(syntax, render, i + 1,
                         Fill(hl, i, i + 1, HlMComment), prev_sep, TRUE)
    ELSE IF multi /\ StartsAt(render, i, mcs)
    THEN SyntaxScan_LineCommentAnywhere(syntax, render, i + Len(mcs),
                    Fill(hl, i, i + Len(mcs), HlMComment), prev_sep, TRUE)
    ELSE IF /\ HL_HIGHLIGHT_NUMBERS \in syntax.flags
            /\ \/ c \in Digits /\ (prev_sep \/ prev_hl = Number)
               \/ c = "." /\ prev_hl = Number
    THEN SyntaxScan_LineCommentAnywhere(syntax, render, i + 1, Fill(hl, i, i + 1, Number),
                    FALSE, in_comment)
    ELSE IF IsSome(kw)
    THEN SyntaxScan_LineCommentAnywhere(syntax, render, i + Unwrap(kw).len,
                    Fill(hl, i, i + Unwrap(kw).len, Unwrap(kw).class),
                    FALSE, in_comment)
    ELSE SyntaxScan_LineCommentAnywhere(syntax, render, i + 1, hl, is_separator(c), in_comment)

\* The scan of editor_update_syntax over one row from column i: the highlight
\* array and the in_comment flag it ends with.
RECURSIVE SyntaxScan(_, _, _, _, _, _)
SyntaxScan(syntax, render, i, hl, prev_sep, in_comment) ==
    IF ~(i < Len(render)) THEN [hl |-> hl, in_comment |-> in_comment]
    ELSE
    LET c == render[i + 1]
        prev_hl == IF i > 0 THEN hl[i] ELSE Normal
        scs == syntax.single_line_comment_start
        mcs == syntax.multiline_comment_start
        mce == syntax.multiline_comment_end
        multi == Len(mcs) > 0 /\ Len(mce) > 0
        kw == IF prev_sep THEN MatchKeyword(syntax, render, i) ELSE None
    IN
    IF Len(scs) > 0 /\ ~in_comment /\ StartsAt(render, i, scs)
    THEN [hl |-> Fill(hl, i, Len(hl), HlComment), in_comment |-> in_comment]
    ELSE IF multi /\ in_comment
    THEN IF StartsAt(render, i, mce)
         THEN SyntaxScan(syntax, render, i + Len(mce),
                         Fill(hl, i, i + Len(mce), HlMComment), TRUE, FALSE)
         ELSE SyntaxScan(syntax, render, i + 1,
                         Fill(hl, i, i + 1, HlMComment), prev_sep, TRUE)
    ELSE IF multi /\ StartsAt(render, i, mcs)
    THEN SyntaxScan(syntax, render, i + Len(mcs),
                    Fill(hl, i, i + Len(mcs), HlMComment), prev_sep, TRUE)
    ELSE IF /\ HL_HIGHLIGHT_NUMBERS \in syntax.flags
            /\ \/ c \in Digits /\ (prev_sep \/ prev_hl = Number)
               \/ c = "." /\ prev_hl = Number
    THEN SyntaxScan(syntax, render, i + 1, Fill(hl, i, i + 1, Number),
                    FALSE, in_comment)
    ELSE IF IsSome(kw)
    THEN SyntaxScan(syntax, render, i + Unwrap(kw).len,
                    Fill(hl, i, i + Unwrap(kw).len, Unwrap(kw).class),
                    FALSE, in_comment)
    ELSE SyntaxScan(syntax, render, i + 1, hl, is_separator(c), in_comment)

\* ------------------------------------------------------------ EditorConfig
\* An editor state e is a record of the EditorConfig fields the model keeps:
\* cx, cy, rx, row_off, col_off, dirty, number_of_rows, quit_times, erow,
\* filename, saved_hl, saved_hl_line, syntax.  Row i of the document is
\* e.erow[i + 1].

restore_highlight(e) ==
    IF IsSome(e.saved_hl) /\ IsSome(e.saved_hl_line)
    THEN LET saved == Unwrap(e.saved_hl)
             saved_line == Unwrap(e.saved_hl_line)
             fits == /\ saved_line < Len(e.erow)
                     /\ IsSome(e.erow[saved_line + 1].hl)
                     /\ Len(Unwrap(e.erow[saved_line + 1].hl)) = Len(saved)
         IN [e EXCEPT
                !.erow = IF fits
                         THEN [e.erow EXCEPT ![saved_line + 1].hl = Some(saved)]
                         ELSE e.erow,
                !.saved_hl = None,
                !.saved_hl_line = None]
    ELSE e

save_highlight(e, line_index) ==
    LET r == restore_highlight(e)
    IN IF line_index < Len(r.erow) /\ IsSome(r.erow[line_index + 1].hl)
       THEN [r EXCEPT !.saved_hl = Some(Unwrap(r.erow[line_index + 1].hl)),
                      !.saved_hl_line = Some(line_index)]
       ELSE r

\* Re-highlights row row_index and, while the open-comment flag of a row
\* changes, the row below it.
RECURSIVE editor_update_syntax(_, _)
editor_update_syntax(e, row_index) ==
    IF row_index >= Len(e.erow) THEN e
    ELSE IF ~IsSome(e.syntax) THEN e
    ELSE
    LET row == e.erow[row_index + 1]
        in_comment0 == IF row_index > 0 THEN e.erow[row_index].hl_open_comment
                       ELSE FALSE
        scan == SyntaxScan(Syntax(Unwrap(e.syntax)), row.render, 0,
                           [j \in 1..Len(row.render) |-> Normal], TRUE,
                           in_comment0)
        changed == row.hl_open_comment # scan.in_comment
        e1 == [e EXCEPT !.erow[row_index + 1].hl_open_comment = scan.in_comment]
        e2 == IF changed /\ row_index + 1 < Len(e1.erow)
              THEN editor_update_syntax(e1, row_index + 1)
              ELSE e1
    IN [e2 EXCEPT !.erow[row_index + 1].hl = Some(scan.hl)]

\* for i in 0..erow.len() { editor_update_syntax(i) }
RECURSIVE UpdateSyntaxFrom(_, _)
UpdateSyntaxFrom(e, i) ==
    IF i >= Len(e.erow) THEN e
    ELSE UpdateSyntaxFrom(editor_update_syntax(e, i), i + 1)

update_all_syntax(e) == UpdateSyntaxFrom(e, 0)

\* filename.rfind('.').map(|pos| &filename[pos..])
FileExt(filename) ==
    LET dots == {p \in 1..Len(filename) : filename[p] = "."}
    IN IF dots = {} THEN None
       ELSE Some(SubSeq(filename,
                        CHOOSE p \in dots : \A q \in dots : q <= p,
                        Len(filename)))

PatternMatches(filename, pattern) ==
    LET is_ext == Len(pattern) > 0 /\ pattern[1] = "."
        ext == FileExt(filename)
    IN \/ is_ext /\ IsSome(ext) /\ Unwrap(ext) = pattern
       \/ ~is_ext /\ Contains(filename, pattern)

editor_select_syntax_highlight(e) ==
    LET e0 == [e EXCEPT !.syntax = None]
    IN IF ~IsSome(e.filename) THEN e0
       ELSE LET hits == {k \in 0..(Len(HLDB) - 1) :
                            \E p \in 1..Len(HLDB[k + 1].filematch) :
                                PatternMatches(Unwrap(e.filename),
                                               HLDB[k + 1].filematch[p])}
            IN IF hits = {} THEN e0
               ELSE update_all_syntax(
                        [e0 EXCEPT !.syntax =
                            Some(CHOOSE k \in hits : \A m \in hits : k <= m)])

\* The rows from at + 1 on are renumbered before the new row goes in at at.
editor_insert_row(e, at, s) ==
    IF at > Len(e.erow) THEN e
    ELSE
    LET renum == [j \in 1..Len(e.erow) |->
                     IF at + 1 <= j - 1 /\ j - 1 < e.number_of_rows
                     THEN [e.erow[j] EXCEPT !.idx = e.erow[j].idx + 1]
                     ELSE e.erow[j]]
        row == update_row(NewRow(s, at))
        rows == Slice(renum, 0, at) \o <<row>> \o Slice(renum, at, Len(renum))
        e1 == [e EXCEPT !.erow = rows, !.number_of_rows = Len(rows)]
        e2 == editor_update_syntax(e1, at)
    IN [e2 EXCEPT !.dirty = e2.dirty + 1]

\* The two build profiles: debug checks usize arithmetic and panics on
\* overflow, release wraps.
Builds == {"debug", "release"}

\* editor_free_row: the rows from at on (the row that goes among them) are
\* renumbered before the row is removed.  An idx of 0 cannot be decremented:
\* the debug build panics there, the release build wraps it to usize::MAX,
\* written here as its two's-complement reading -1.
editor_free_row(e, at, build) ==
    IF at >= e.number_of_rows THEN [e |-> e, panicked |-> FALSE]
    ELSE IF \/ e.number_of_rows > Len(e.erow)
            \/ /\ build = "debug"
               /\ \E j \in at..(e.number_of_rows - 1) : e.erow[j + 1].idx = 0
    THEN [e |-> e, panicked |-> TRUE]
    ELSE
    LET renum == [j \in 1..Len(e.erow) |->
                     IF at <= j - 1 /\ j - 1 < e.number_of_rows
                     THEN [e.erow[j] EXCEPT !.idx = e.erow[j].idx - 1]
                     ELSE e.erow[j]]
        rows == Slice(renum, 0, at) \o Slice(renum, at + 1, Len(renum))
    IN [e |-> [e EXCEPT !.erow = rows,
                        !.number_of_rows = e.number_of_rows - 1,
                        !.dirty = e.dirty + 1],
        panicked |-> FALSE]

\* Enter with cx > 0 indexes erow[cy] and slices chars[cx..]: out of range it
\* panics.
InsertNewLinePanics(e) ==
    /\ e.cx # 0
    /\ \/ e.cy >= Len(e.erow)
       \/ e.cx > Len(e.erow[e.cy + 1].chars)

editor_insert_new_line(e) ==
    LET e1 == IF e.cx = 0 THEN editor_insert_row(e, e.cy, <<>>)
              ELSE LET current_row == e.erow[e.cy + 1]
                       right == Slice(current_row.chars, e.cx,
                                      Len(current_row.chars))
                       left == update_row([current_row EXCEPT
                                   !.chars = Slice(current_row.chars, 0, e.cx),
                                   !.size = e.cx])
                   IN editor_insert_row([e EXCEPT !.erow[e.cy + 1] = left],
                                        e.cy + 1, right)
    IN [e1 EXCEPT !.cy = e.cy + 1, !.cx = 0]

editor_insert_char(e, c) ==
    LET e1 == IF e.cy = e.number_of_rows
              THEN editor_insert_row(e, e.number_of_rows, <<>>)
              ELSE e
        e2 == [e1 EXCEPT !.erow[e.cy + 1] =
                  row_insert_char(e1.erow[e.cy + 1], e.cx, c)]
        e3 == editor_update_syntax(e2, e.cy)
    IN [e3 EXCEPT !.cx = e.cx + 1, !.dirty = e3.dirty + 1]

\* The join reads the previous row's cached size for the new cx.
editor_del_char(e) ==
    IF e.cy >= e.number_of_rows THEN e
    ELSE IF e.cx = 0 /\ e.cy = 0 THEN e
    ELSE IF e.cx > 0
    THEN LET e1 == [e EXCEPT !.cx = e.cx - 1,
                             !.erow[e.cy + 1] =
                                 row_delete_char(e.erow[e.cy + 1], e.cx - 1)]
             e2 == editor_update_syntax(e1, e.cy)
         IN [e2 EXCEPT !.dirty = e2.dirty + 1]
    ELSE LET current_row == e.erow[e.cy + 1]
             removed == Slice(e.erow, 0, e.cy)
                            \o Slice(e.erow, e.cy + 1, Len(e.erow))
             prev_row_len == removed[e.cy].size
             e1 == [e EXCEPT !.cy = e.cy - 1,
                             !.erow = [removed EXCEPT ![e.cy] =
                                 row_append_string(removed[e.cy],
                                                   current_row.chars)]]
             e2 == editor_update_syntax(e1, e1.cy)
         IN [e2 EXCEPT !.cx = prev_row_len,
                       !.number_of_rows = e.number_of_rows - 1,
                       !.dirty = e2.dirty + 1]

\* The Delete arm leaves the dirty counter alone.
DeleteForward_NotCounted(e) ==
    LET len == Len(e.erow[e.cy + 1].chars)
    IN IF e.cx < len
       THEN [e EXCEPT !.erow[e.cy + 1] = row_delete_char(e.erow[e.cy + 1], e.cx)]
       ELSE IF e.cx = len /\ e.cy < e.number_of_rows - 1
       THEN LET next_row == e.erow[e.cy + 2]
                removed == Slice(e.erow, 0, e.cy + 1)
                               \o Slice(e.erow, e.cy + 2, Len(e.erow))
            IN [e EXCEPT !.erow = [removed EXCEPT ![e.cy + 1] =
                             row_append_string(removed[e.cy + 1],
                                               next_row.chars)],
                         !.number_of_rows = e.number_of_rows - 1]
       ELSE e

\* The Delete arm of process_keypress, after its virtual-row check.
DeleteForward(e) ==
    LET len == Len(e.erow[e.cy + 1].chars)
    IN IF e.cx < len
       THEN [e EXCEPT !.erow[e.cy + 1] = row_delete_char(e.erow[e.cy + 1], e.cx),
                      !.dirty = e.dirty + 1]
       ELSE IF e.cx = len /\ e.cy < e.number_of_rows - 1
       THEN LET next_row == e.erow[e.cy + 2]
                removed == Slice(e.erow, 0, e.cy + 1)
                               \o Slice(e.erow, e.cy + 2, Len(e.erow))
            IN [e EXCEPT !.erow = [removed EXCEPT ![e.cy + 1] =
                             row_append_string(removed[e.cy + 1],
                                               next_row.chars)],
                         !.number_of_rows = e.number_of_rows - 1,
                         !.dirty = e.dirty + 1]
       ELSE e

RECURSIVE RowsToString(_, _)
RowsToString(erow, k) ==
    IF k > Len(erow) THEN <<>>
    ELSE erow[k].chars \o <<LF>> \o RowsToString(erow, k + 1)

\* Every row followed by no newline but the last.
editor_row_to_string_NoLastNewline(e) ==
    LET s == RowsToString(e.erow, 1)
    IN IF s = <<>> THEN s ELSE Slice(s, 0, Len(s) - 1)

editor_row_to_string(e) == RowsToString(e.erow, 1)

\* ------------------------------------------------------------ load
\* BufRead::read_line: the bytes up to and including the next newline, or
\* the rest of the file.
RECURSIVE ReadLines(_)
ReadLines(bytes) ==
    IF bytes = <<>> THEN <<>>
    ELSE LET nl == Find(bytes, <<LF>>)
             n == IF IsSome(nl) THEN Unwrap(nl) + 1 ELSE Len(bytes)
         IN <<Slice(bytes, 0, n)>> \o ReadLines(Slice(bytes, n, Len(bytes)))

\* line.trim_end_matches(|c| c == '\n' || c == '\r')
RECURSIVE TrimLineEnd(_)
TrimLineEnd(line) ==
    IF line # <<>> /\ line[Len(line)] \in {LF, CR}
    THEN TrimLineEnd(Slice(line, 0, Len(line) - 1))
    ELSE line

RECURSIVE InsertLines(_, _, _)
InsertLines(e, lines, k) ==
    IF k > Len(lines) THEN e
    ELSE InsertLines(editor_insert_row(e, e.number_of_rows,
                                       TrimLineEnd(lines[k])),
                     lines, k + 1)

editor_open(e, name, content) ==
    LET e1 == InsertLines([e EXCEPT !.filename = Some(name)],
                          ReadLines(content), 1)
    IN editor_select_syntax_highlight([e1 EXCEPT !.dirty = 0])

\* ------------------------------------------------------------ view
\* The row offset that follows the cursor down lands one row short.
editor_scroll_OneRowShort(e) ==
    LET rx1 == IF e.cy < e.number_of_rows
               THEN editor_row_cx_to_rx(e.erow[e.cy + 1], e.cx)
               ELSE e.rx
        ro1 == IF e.cy < e.row_off THEN e.cy ELSE e.row_off
        ro2 == IF e.cy >= ro1 + screen_rows THEN e.cy - screen_rows ELSE ro1
        co1 == IF rx1 < e.col_off THEN rx1 ELSE e.col_off
        co2 == IF rx1 >= co1 + screen_cols THEN rx1 - screen_cols + 1 ELSE co1
    IN [e EXCEPT !.rx = rx1, !.row_off = ro2, !.col_off = co2]

editor_scroll(e) ==
    LET rx1 == IF e.cy < e.number_of_rows
               THEN editor_row_cx_to_rx(e.erow[e.cy + 1], e.cx)
               ELSE e.rx
        ro1 == IF e.cy < e.row_off THEN e.cy ELSE e.row_off
        ro2 == IF e.cy >= ro1 + screen_rows THEN e.cy - screen_rows + 1 ELSE ro1
        co1 == IF rx1 < e.col_off THEN rx1 ELSE e.col_off
        co2 == IF rx1 >= co1 + screen_cols THEN rx1 - screen_cols + 1 ELSE co1
    IN [e EXCEPT !.rx = rx1, !.row_off = ro2, !.col_off = co2]

\* A frame that also brings the cursor column back into its row.
refresh_screen_SnapsCursor(e) ==
    LET s == editor_scroll(e)
    IN IF s.cy < s.number_of_rows /\ s.cx > Len(s.erow[s.cy + 1].chars)
       THEN [s EXCEPT !.cx = Len(s.erow[s.cy + 1].chars)]
       ELSE IF s.cy >= s.number_of_rows THEN [s EXCEPT !.cx = 0]
       ELSE s

\* draw_rows, the status bar and the message bar take &self: a frame changes
\* the editor through editor_scroll alone.
refresh_screen(e) == editor_scroll(e)

editor_move_cursor(e, key) ==
    LET moved ==
            CASE key = "ArrowLeft" ->
                     IF e.cx > 0 THEN [e EXCEPT !.cx = e.cx - 1]
                     ELSE IF e.cy > 0
                          THEN [e EXCEPT !.cy = e.cy - 1,
                                         !.cx = e.erow[e.cy].size]
                          ELSE e
              [] key = "ArrowRight" ->
                     IF e.cy < e.number_of_rows /\ e.cx < e.erow[e.cy + 1].size
                     THEN [e EXCEPT !.cx = e.cx + 1]
                     ELSE e
              [] key = "ArrowUp" ->
                     IF e.cy > 0 THEN [e EXCEPT !.cy = e.cy - 1] ELSE e
              [] key = "ArrowDown" ->
                     IF e.cy < e.number_of_rows THEN [e EXCEPT !.cy = e.cy + 1]
                     ELSE e
              [] OTHER -> e
    IN IF moved.cy < moved.number_of_rows
       THEN IF moved.cx > moved.erow[moved.cy + 1].size
            THEN [moved EXCEPT !.cx = moved.erow[moved.cy + 1].size]
            ELSE moved
       ELSE [moved EXCEPT !.cx = 0]

page_up(e) == [e EXCEPT !.cy = e.row_off]

page_down(e) ==
    LET cy1 == e.row_off + screen_rows - 1
    IN [e EXCEPT !.cy = IF cy1 > e.number_of_rows THEN e.number_of_rows
                        ELSE cy1]

home_key(e) == [e EXCEPT !.cx = 0]

end_key(e) ==
    IF e.cy < e.number_of_rows THEN [e EXCEPT !.cx = e.erow[e.cy + 1].size]
    ELSE e

\* ------------------------------------------------------------ search
\* The closure of editor_find: s is [e, last_match, direction].  The loop
\* steps before it looks, so the row it starts from is examined last.
\* The loop does not stop at a match: it goes on and keeps the last one.
RECURSIVE SearchLoop_KeepsGoing(_, _, _, _)
SearchLoop_KeepsGoing(s, query, current, n) ==
    IF n = 0 THEN s
    ELSE
    LET row_count == Len(s.e.erow)
        next == IF s.direction = 1 THEN (current + 1) % row_count
                ELSE IF current = 0 THEN row_count - 1 ELSE current - 1
        here == IF Contains(s.e.erow[next + 1].render, query)
                THEN [e |-> [s.e EXCEPT !.cy = next], last_match |-> Some(next),
                      direction |-> s.direction]
                ELSE s
    IN SearchLoop_KeepsGoing(here, query, next, n - 1)

RECURSIVE SearchLoop(_, _, _, _)
SearchLoop(s, query, current, n) ==
    IF n = 0 THEN s
    ELSE
    LET row_count == Len(s.e.erow)
        next == IF s.direction = 1 THEN (current + 1) % row_count
                ELSE IF current = 0 THEN row_count - 1 ELSE current - 1
        row == s.e.erow[next + 1]
        found == Find(row.render, query)
    IN IF IsSome(found)
       THEN LET match_index == Unwrap(found)
                e1 == [s.e EXCEPT !.cy = next,
                                  !.cx = editor_row_rx_to_cx(row, match_index),
                                  !.row_off = s.e.number_of_rows]
                e2 == save_highlight(e1, next)
                e3 == [e2 EXCEPT !.erow[next + 1] =
                          row_highlight_match(e2.erow[next + 1], match_index,
                                              query)]
            IN [e |-> e3, last_match |-> Some(next), direction |-> s.direction]
       ELSE SearchLoop(s, query, next, n - 1)

\* The closure reads every arrow as forward.
search_callback_ArrowsForward(e, lm, dir, query, key) ==
    IF key \in {"EnterKey", "Escape"}
    THEN [e |-> restore_highlight(e), last_match |-> None, direction |-> 1]
    ELSE
    LET lm1 == IF key \in {"ArrowRight", "ArrowDown", "ArrowLeft", "ArrowUp"}
               THEN lm ELSE None
        s1 == [e |-> e, last_match |-> lm1, direction |-> 1]
    IN IF query = <<>> \/ e.erow = <<>> THEN s1
       ELSE SearchLoop(s1, query, IF IsSome(lm1) THEN Unwrap(lm1) ELSE 0,
                       Len(e.erow))

search_callback(e, lm, dir, query, key) ==
    IF key \in {"EnterKey", "Escape"}
    THEN [e |-> restore_highlight(e), last_match |-> None, direction |-> 1]
    ELSE
    LET lm1 == IF key \in {"ArrowRight", "ArrowDown", "ArrowLeft", "ArrowUp"}
               THEN lm ELSE None
        dir1 == IF key \in {"ArrowRight", "ArrowDown"} THEN 1
                ELSE IF key \in {"ArrowLeft", "ArrowUp"} THEN -1
                ELSE 1
        s1 == [e |-> e, last_match |-> lm1, direction |-> dir1]
    IN IF query = <<>> \/ e.erow = <<>> THEN s1
       ELSE LET s2 == IF lm1 = None THEN [s1 EXCEPT !.direction = 1] ELSE s1
                current == IF IsSome(lm1) THEN Unwrap(lm1) ELSE 0
            IN SearchLoop(s2, query, current, Len(e.erow))

\* ------------------------------------------------------------ read_key
\* The outcome of one read of a single byte from the terminal (VMIN = 0,
\* VTIME = 1): a byte, no byte within the timeout, or a failed read.
Data(c) == [res |-> "Ok", n |-> 1, byte |-> c]
Timeout == [res |-> "Ok", n |-> 0, byte |-> 0]
Failed == [res |-> "Err", n |-> 0, byte |-> 0]

\* The k-th read of a call of read_key; once the stream is used up, nothing
\* more arrives.
Rd(input, k) == IF k <= Len(input) THEN input[k] ELSE Timeout

\* A byte literal of the source.
Lit(ch) ==
    CASE ch = "\n" -> 10
      [] ch = "\r" -> 13
      [] ch = "ESC" -> 27
      [] ch = "1" -> 49
      [] ch = "3" -> 51
      [] ch = "4" -> 52
      [] ch = "5" -> 53
      [] ch = "6" -> 54
      [] ch = "7" -> 55
      [] ch = "8" -> 56
      [] ch = "9" -> 57
      [] ch = "A" -> 65
      [] ch = "B" -> 66
      [] ch = "C" -> 67
      [] ch = "D" -> 68
      [] ch = "F" -> 70
      [] ch = "H" -> 72
      [] ch = "O" -> 79
      [] ch = "[" -> 91
      [] ch = "f" -> 102
      [] ch = "h" -> 104
      [] ch = "l" -> 108
      [] ch = "q" -> 113
      [] ch = "s" -> 115
      [] ch = "~" -> 126

is_ascii_digit(c) == c \in 48..57

\* The mask keeps four bits.
ctrl_key_FourBits(k) == k % 16

\* k & 0x1f
ctrl_key(k) == k % 32

\* enum EditorKey; Other carries its byte.
EditorKey ==
    {"ArrowUp", "ArrowDown", "ArrowRight", "ArrowLeft", "HomeKey", "EndKey",
     "Delete", "PageUp", "PageDown", "CtrlQ", "Escape", "EnterKey",
     "Backspace", "CtrlF", "CtrlH", "CtrlL", "CtrlS", "Other"}
Key(kind) == [kind |-> kind, byte |-> 0]
Other(c) == [kind |-> "Other", byte |-> c]

\* The lookahead loop never gives up: it skips a read that brings nothing
\* and reads again.
lookahead_ReadsOn(input) ==
    LET got == SelectSeq(<<Rd(input, 2), Rd(input, 3)>>,
                         LAMBDA r : r.res = "Ok" /\ r.n > 0)
    IN [seq |-> [k \in 1..Len(got) |-> got[k].byte], reads |-> 3]

\* The lookahead loop after ESC: up to two more bytes, given up at the first
\* read that brings nothing or fails.  seq holds the bytes read (idx is its
\* length), reads counts the reads of the call so far.
lookahead(input) ==
    LET r1 == Rd(input, 2)
        r2 == Rd(input, 3)
    IN IF ~(r1.res = "Ok" /\ r1.n > 0) THEN [seq |-> <<>>, reads |-> 2]
       ELSE IF ~(r2.res = "Ok" /\ r2.n > 0)
            THEN [seq |-> <<r1.byte>>, reads |-> 3]
            ELSE [seq |-> <<r1.byte, r2.byte>>, reads |-> 3]

\* The key after ESC, with the number of reads of the call.
escape_sequence(input) ==
    LET la == lookahead(input)
        seq == la.seq
        idx == Len(seq)
        Ret(kind, n) == [res |-> "Ok", key |-> Key(kind), reads |-> n]
    IN IF idx = 0 THEN Ret("Escape", la.reads)
       ELSE IF seq[1] = Lit("[") /\ idx > 1
       THEN IF is_ascii_digit(seq[2])
            THEN LET third == Rd(input, la.reads + 1)
                     read_third == IF third.res = "Ok" THEN third.n ELSE 0
                 IN IF read_third > 0 /\ third.byte = Lit("~")
                    THEN Ret(CASE seq[2] \in {Lit("1"), Lit("7")} -> "HomeKey"
                               [] seq[2] = Lit("3") -> "Delete"
                               [] seq[2] \in {Lit("4"), Lit("8")} -> "EndKey"
                               [] seq[2] = Lit("5") -> "PageUp"
                               [] seq[2] = Lit("6") -> "PageDown"
                               [] OTHER -> "Escape", la.reads + 1)
                    ELSE Ret("Escape", la.reads + 1)
            ELSE Ret(CASE seq[2] = Lit("A") -> "ArrowUp"
                       [] seq[2] = Lit("B") -> "ArrowDown"
                       [] seq[2] = Lit("C") -> "ArrowRight"
                       [] seq[2] = Lit("D") -> "ArrowLeft"
                       [] seq[2] = Lit("H") -> "HomeKey"
                       [] seq[2] = Lit("F") -> "EndKey"
                       [] OTHER -> "Escape", la.reads)
       ELSE IF seq[1] = Lit("O") /\ idx > 1
       THEN Ret(CASE seq[2] = Lit("H") -> "HomeKey"
                  [] seq[2] = Lit("F") -> "EndKey"
                  [] OTHER -> "Escape", la.reads)
       ELSE Ret("Escape", la.reads)

\* read_key on a stream of read outcomes: the io::Result it returns and the
\* number of reads it made.
read_key(input) ==
    LET first == Rd(input, 1)
        c == first.byte
        Ret(key) == [res |-> "Ok", key |-> key, reads |-> 1]
    IN IF first.res = "Err" THEN [res |-> "Err", key |-> Key("Escape"), reads |-> 1]
       ELSE IF first.n = 0 THEN Ret(Other(0))
       ELSE IF c = Lit("\r") \/ c = Lit("\n") THEN Ret(Key("EnterKey"))
       ELSE IF c = 127 \/ c = 8 THEN Ret(Key("Backspace"))
       ELSE IF c = ctrl_key(Lit("q")) THEN Ret(Key("CtrlQ"))
       ELSE IF c = ctrl_key(Lit("s")) THEN Ret(Key("CtrlS"))
       ELSE IF c = ctrl_key(Lit("f")) THEN Ret(Key("CtrlF"))
       ELSE IF c = ctrl_key(Lit("h")) THEN Ret(Key("CtrlH"))
       ELSE IF c = ctrl_key(Lit("l")) THEN Ret(Key("CtrlL"))
       ELSE IF c = Lit("ESC") THEN escape_sequence(input)
       ELSE Ret(Other(c))

\* ------------------------------------------------------------ state
VARIABLES
    \* EditorConfig
    cx, cy, rx, row_off, col_off, dirty, number_of_rows, quit_times, erow,
    filename, saved_hl, saved_hl_line, syntax,
    \* where the program stands: "start" (main, before the file is opened),
    \* "refresh" (top of the main or prompt loop), "key" (waiting in read_key),
    \* "exited", "panicked", "died" (fatal start-up error), "fn" (a row
    \* function applied on its own)
    pc,
    \* the prompt loop that is running ("none", "find", "save") and its buf
    prompt, buf,
    \* the locals of editor_find: its closure's state and the saved position
    last_match, direction, saved_pos,
    \* the calls of the callback in the last turn of the prompt loop, each
    \* with its query and key
    cb,
    \* the environment: the command-line file name, the bytes of the file,
    \* the printable bytes the keyboard delivers
    args, disk, typed,
    \* the row function applied last, with its arguments and its result
    call

edvars == <<cx, cy, rx, row_off, col_off, dirty, number_of_rows, quit_times,
            erow, filename, saved_hl, saved_hl_line, syntax>>
findvars == <<prompt, buf, last_match, direction, saved_pos, cb>>
envvars == <<args, typed>>
vars == <<edvars, pc, findvars, envvars, disk, call>>

E ==
    [cx |-> cx, cy |-> cy, rx |-> rx, row_off |-> row_off, col_off |-> col_off,
     dirty |-> dirty, number_of_rows |-> number_of_rows,
     quit_times |-> quit_times, erow |-> erow, filename |-> filename,
     saved_hl |-> saved_hl, saved_hl_line |-> saved_hl_line,
     syntax |-> syntax]

SetE(e) ==
    /\ cx' = e.cx
    /\ cy' = e.cy
    /\ rx' = e.rx
    /\ row_off' = e.row_off
    /\ col_off' = e.col_off
    /\ dirty' = e.dirty
    /\ number_of_rows' = e.number_of_rows
    /\ quit_times' = e.quit_times
    /\ erow' = e.erow
    /\ filename' = e.filename
    /\ saved_hl' = e.saved_hl
    /\ saved_hl_line' = e.saved_hl_line
    /\ syntax' = e.syntax

NoPos == [cx |-> 0, cy |-> 0, row_off |-> 0, col_off |-> 0]
NoCall == [op |-> "none"]

\* A fresh EditorConfig, nothing opened yet, no prompt running.
Constructed ==
    /\ cx = 0 /\ cy = 0 /\ rx = 0 /\ row_off = 0 /\ col_off = 0
    /\ dirty = 0 /\ number_of_rows = 0 /\ quit_times = QUIT_TIMES
    /\ erow = <<>> /\ filename = None /\ saved_hl = None
    /\ saved_hl_line = None /\ syntax = None
    /\ prompt = "none" /\ buf = <<>>
    /\ last_match = None /\ direction = 1 /\ saved_pos = NoPos
    /\ cb = <<>>

\* ------------------------------------------------------------ main
\* main: editor_open when a file name is given; a file that cannot be opened
\* is a fatal error.
Open ==
    /\ pc = "start"
    /\ IF IsSome(args)
       THEN IF IsSome(disk)
            THEN /\ \E e \in {editor_open(E, Unwrap(args), Unwrap(disk))} :
                        SetE(e)
                 /\ pc' = "refresh"
            ELSE pc' = "died" /\ UNCHANGED edvars
       ELSE pc' = "refresh" /\ UNCHANGED edvars
    /\ UNCHANGED <<findvars, envvars, disk, call>>

\* The refresh_screen at the top of the main loop and of the prompt loop.
Refresh ==
    /\ pc = "refresh"
    /\ \E e \in {refresh_screen(E)} : SetE(e)
    /\ pc' = "key"
    /\ UNCHANGED <<findvars, envvars, disk, call>>

\* ------------------------------------------------------------ process_keypress
InMainLoop == pc = "key" /\ prompt = "none"

\* An edit is taken while the dirty counter is below its bound and leaves
\* the row count and the row lengths (actual and cached) within theirs.
InBounds(e) ==
    e.dirty # dirty =>
        /\ dirty < MaxDirty
        /\ Len(e.erow) <= MaxRows
        /\ \A k \in 1..Len(e.erow) :
               Len(e.erow[k].chars) <= MaxLen /\ e.erow[k].size <= MaxLen

\* The end of process_keypress for every key but CtrlQ.
Finish(e) ==
    /\ \E e1 \in {[e EXCEPT !.quit_times = QUIT_TIMES]} : SetE(e1)
    /\ pc' = "refresh"

\* An arm of process_keypress that takes the editor to e, then the end.
Arm(e) == \E e1 \in {e} : InBounds(e1) /\ Finish(e1)

\* The CtrlQ arm never decrements.
ctrl_q_NoDecrement(e) ==
    IF e.dirty > 0 /\ e.quit_times > 0
    THEN [e |-> e, continue |-> TRUE]
    ELSE [e |-> refresh_screen(e), continue |-> FALSE]

\* The CtrlQ arm: the editor after it, and whether the main loop goes on.
ctrl_q(e) ==
    IF e.dirty > 0 /\ e.quit_times > 0
    THEN [e |-> [e EXCEPT !.quit_times = e.quit_times - 1], continue |-> TRUE]
    ELSE [e |-> refresh_screen(e), continue |-> FALSE]

KeyEnter ==
    /\ InMainLoop
    /\ IF InsertNewLinePanics(E)
       THEN pc' = "panicked" /\ UNCHANGED edvars
       ELSE Arm(editor_insert_new_line(E))
    /\ UNCHANGED <<findvars, envvars, disk, call>>

KeyCtrlQ ==
    /\ InMainLoop
    /\ \E r \in {ctrl_q(E)} :
           /\ SetE(r.e)
           /\ pc' = IF r.continue THEN "refresh" ELSE "exited"
    /\ UNCHANGED <<findvars, envvars, disk, call>>

\* std::fs::write returned Ok: the file holds the text, dirty is reset.
WriteOk(e) ==
    Finish([e EXCEPT !.dirty = 0]) /\ disk' = Some(editor_row_to_string(e))

\* The Err arm resets dirty as the Ok arm does.
WriteErr_ClearsDirty(e) == Finish([e EXCEPT !.dirty = 0]) /\ disk' = disk

\* std::fs::write returned Err: only the status message is set.
WriteErr(e) == Finish(e) /\ disk' = disk

\* std::fs::write succeeds or fails.
WriteFile(e) ==
    \/ WriteOk(e)
    \/ WriteErr(e)

KeyCtrlS ==
    /\ InMainLoop
    /\ IF IsSome(filename)
       THEN (\E e \in {E} : WriteFile(e)) /\ UNCHANGED findvars
       ELSE /\ prompt' = "save"
            /\ buf' = <<>>
            /\ pc' = "refresh"
            /\ cb' = <<>>
            /\ UNCHANGED <<edvars, last_match, direction, saved_pos, disk>>
    /\ UNCHANGED <<envvars, call>>

KeyCtrlF ==
    /\ InMainLoop
    /\ prompt' = "find"
    /\ buf' = <<>>
    /\ saved_pos' = [cx |-> cx, cy |-> cy, row_off |-> row_off,
                     col_off |-> col_off]
    /\ last_match' = None
    /\ direction' = 1
    /\ cb' = <<>>
    /\ pc' = "refresh"
    /\ UNCHANGED <<edvars, envvars, disk, call>>

KeyPageUp ==
    /\ InMainLoop
    /\ Arm(page_up(E))
    /\ UNCHANGED <<findvars, envvars, disk, call>>

KeyPageDown ==
    /\ InMainLoop
    /\ Arm(page_down(E))
    /\ UNCHANGED <<findvars, envvars, disk, call>>

KeyHome ==
    /\ InMainLoop
    /\ Arm(home_key(E))
    /\ UNCHANGED <<findvars, envvars, disk, call>>

KeyEnd ==
    /\ InMainLoop
    /\ Arm(end_key(E))
    /\ UNCHANGED <<findvars, envvars, disk, call>>

\* On the virtual row Delete returns before the quit counter is reset.
KeyDelete ==
    /\ InMainLoop
    /\ IF cy >= number_of_rows
       THEN pc' = "refresh" /\ UNCHANGED edvars
       ELSE Arm(DeleteForward(E))
    /\ UNCHANGED <<findvars, envvars, disk, call>>

\* Backspace on the virtual row steps back onto the last row.
KeyBackspace_StepsBack ==
    /\ InMainLoop
    /\ Arm(IF cy >= number_of_rows /\ cy > 0
           THEN [E EXCEPT !.cy = cy - 1]
           ELSE editor_del_char(E))
    /\ UNCHANGED <<findvars, envvars, disk, call>>

\* Backspace and CtrlH
KeyBackspace ==
    /\ InMainLoop
    /\ Arm(editor_del_char(E))
    /\ UNCHANGED <<findvars, envvars, disk, call>>

KeyArrow ==
    /\ InMainLoop
    /\ \E key \in {"ArrowUp", "ArrowDown", "ArrowRight", "ArrowLeft"} :
           Arm(editor_move_cursor(E, key))
    /\ UNCHANGED <<findvars, envvars, disk, call>>

\* Other(byte): a printable byte is inserted; any other byte (the 0 of a read
\* that timed out among them) is dropped.
KeyOther ==
    /\ InMainLoop
    /\ \E byte \in typed \cup {NUL} :
           IF byte # NUL
           THEN Arm(editor_insert_char(E, byte))
           ELSE Arm(E)
    /\ UNCHANGED <<findvars, envvars, disk, call>>

\* CtrlL and Escape
KeyNothing ==
    /\ InMainLoop
    /\ Arm(E)
    /\ UNCHANGED <<findvars, envvars, disk, call>>

\* ------------------------------------------------------------ editor_prompt
InPrompt == pc = "key" /\ prompt # "none"

\* The keys the prompt loop itself ignores, other than the arrows.
PromptKeys == {"HomeKey", "EndKey", "PageUp", "PageDown", "CtrlQ", "CtrlS",
               "CtrlF", "CtrlL"}

\* The search closure takes the overlay of the previous match off before it
\* looks at the key.
Callback_RestoresFirst(e, query, key) ==
    IF prompt = "find"
    THEN search_callback(restore_highlight(e), last_match, direction, query, key)
    ELSE [e |-> e, last_match |-> last_match, direction |-> direction]

\* The callback after a keystroke: the search closure for editor_find, none
\* for the Save-as prompt.
Callback(e, query, key) ==
    IF prompt = "find"
    THEN search_callback(e, last_match, direction, query, key)
    ELSE [e |-> e, last_match |-> last_match, direction |-> direction]

\* The rest of one turn of the prompt loop: the callback, then the loop again.
Turn(query, key) ==
    /\ \E s \in {Callback(E, query, key)} :
           /\ SetE(s.e)
           /\ last_match' = s.last_match
           /\ direction' = s.direction
    /\ cb' = IF prompt = "find" THEN <<[query |-> query, key |-> key]>>
             ELSE <<>>
    /\ buf' = query
    /\ pc' = "refresh"
    /\ UNCHANGED <<prompt, saved_pos, disk>>

\* editor_prompt returned: the prompt is over.
Leave ==
    /\ prompt' = "none"
    /\ buf' = <<>>
    /\ cb' = <<>>
    /\ UNCHANGED <<last_match, direction, saved_pos>>

\* editor_save with the name the Save-as prompt returned: the file name is
\* assigned and the syntax profile selected before the file is written.
save_as(e, name) ==
    editor_select_syntax_highlight([e EXCEPT !.filename = Some(name)])

\* Enter on a non-empty buffer returns it (before the callback is reached):
\* editor_find is done, editor_save takes it as the file name and writes.
\* Enter on an empty buffer is one more turn of the loop.
PromptEnter ==
    /\ InPrompt
    /\ IF buf # <<>>
       THEN /\ Leave
            /\ IF prompt = "find"
               THEN Arm(E) /\ disk' = disk
               ELSE \E e \in {save_as(E, buf)} : WriteFile(e)
       ELSE Turn(buf, "EnterKey")
    /\ UNCHANGED <<envvars, call>>

\* Backspace, CtrlH and Delete
PromptErase ==
    /\ InPrompt
    /\ Turn(IF buf # <<>> THEN Slice(buf, 0, Len(buf) - 1) ELSE buf,
            "Backspace")
    /\ UNCHANGED <<envvars, call>>

\* The cancelled search puts the cursor back and leaves the scroll offsets.
find_cancelled_CursorOnly(e, saved) ==
    [e EXCEPT !.cy = saved.cy, !.cx = saved.cx]

\* editor_find after editor_prompt returned None.
find_cancelled(e, saved) ==
    [e EXCEPT !.cy = saved.cy, !.cx = saved.cx, !.row_off = saved.row_off,
              !.col_off = saved.col_off]

\* Escape returns None (before the callback is reached): editor_find puts
\* the saved position back, editor_save gives up.
PromptEscape ==
    /\ InPrompt
    /\ Leave
    /\ IF prompt = "find"
       THEN Arm(find_cancelled(E, saved_pos))
       ELSE Arm(E)
    /\ UNCHANGED <<envvars, disk, call>>

PromptOther ==
    /\ InPrompt
    /\ \E byte \in typed \cup {NUL} :
           IF byte # NUL
           THEN Len(buf) < MaxBuf /\ Turn(Append(buf, byte), "Other")
           ELSE Turn(buf, "Other")
    /\ UNCHANGED <<envvars, call>>

\* Every other key leaves the buffer alone: the arrows that the search
\* closure reads as forward and as backward, and the rest.
PromptForward ==
    /\ InPrompt
    /\ \E key \in {"ArrowRight", "ArrowDown"} : Turn(buf, key)
    /\ UNCHANGED <<envvars, call>>

PromptBackward ==
    /\ InPrompt
    /\ \E key \in {"ArrowLeft", "ArrowUp"} : Turn(buf, key)
    /\ UNCHANGED <<envvars, call>>

PromptKey ==
    /\ InPrompt
    /\ \E key \in PromptKeys : Turn(buf, key)
    /\ UNCHANGED <<envvars, call>>

\* ------------------------------------------------------------ row functions
\* update_row, editor_row_cx_to_rx and editor_row_rx_to_cx applied to a row
\* on their own.
CallUpdateRow ==
    /\ pc = "fn"
    /\ call.op = "new"
    /\ call' = [op |-> "update_row", row |-> update_row(call.row)]
    /\ UNCHANGED <<edvars, pc, findvars, envvars, disk>>

CallCxToRx ==
    /\ pc = "fn"
    /\ call.op = "update_row"
    /\ \E c \in 0..Len(call.row.chars) :
           call' = [op |-> "cx_to_rx", row |-> call.row, cx |-> c,
                    rx |-> editor_row_cx_to_rx(call.row, c)]
    /\ UNCHANGED <<edvars, pc, findvars, envvars, disk>>

CallRxToCx ==
    /\ pc = "fn"
    /\ call.op = "cx_to_rx"
    /\ call' = [op |-> "rx_to_cx", row |-> call.row, cx |-> call.cx,
                rx |-> call.rx,
                back |-> editor_row_rx_to_cx(call.row, call.rx)]
    /\ UNCHANGED <<edvars, pc, findvars, envvars, disk>>

\* editor_scroll applied on its own.
CallScroll ==
    /\ pc = "fn"
    /\ call.op = "view"
    /\ call' = [op |-> "scroll", before |-> call.e, after |-> editor_scroll(call.e)]
    /\ UNCHANGED <<edvars, pc, findvars, envvars, disk>>

\* editor_free_row and editor_insert_row applied on their own.
CallFreeRow ==
    /\ pc = "fn"
    /\ call.op = "doc"
    /\ \E build \in Builds :
           call' = [op |-> "free_row", before |-> call.e, at |-> call.at,
                    build |-> build,
                    result |-> editor_free_row(call.e, call.at, build)]
    /\ UNCHANGED <<edvars, pc, findvars, envvars, disk>>

CallInsertRow ==
    /\ pc = "fn"
    /\ call.op = "doc"
    /\ call' = [op |-> "insert_row", before |-> call.e, at |-> call.at,
                s |-> call.s,
                after |-> editor_insert_row(call.e, call.at, call.s)]
    /\ UNCHANGED <<edvars, pc, findvars, envvars, disk>>

\* read_key applied on its own.
CallReadKey ==
    /\ pc = "fn"
    /\ call.op = "input"
    /\ call' = [op |-> "read_key", input |-> call.input,
                result |-> read_key(call.input)]
    /\ UNCHANGED <<edvars, pc, findvars, envvars, disk>>

\* ------------------------------------------------------------ specifications
Strings(alphabet, n) == UNION {[1..k -> alphabet] : k \in 0..n}

Str_ab == <<"a", "b", LF, "c", "d", LF>>
Name_t == <<"t">>
Name_rs == <<"x", ".", "r", "s">>

\* The editor on a two-line text file, or started without a file.
Init ==
    /\ Constructed
    /\ pc = "start"
    /\ call = NoCall
    /\ typed = {"a"}
    /\ \/ args = None /\ disk = None
       \/ args = Some(Name_t) /\ disk = Some(Str_ab)

\* The keys of the main loop that move the cursor.
Navigate ==
    \/ KeyPageUp
    \/ KeyPageDown
    \/ KeyHome
    \/ KeyEnd
    \/ KeyArrow
    \/ KeyNothing

\* The keys of the main loop that edit the document.
Edit ==
    \/ KeyEnter
    \/ KeyDelete
    \/ KeyBackspace
    \/ KeyOther

\* A session of editing: every key of the main loop but save and find.
Next ==
    \/ Open
    \/ Refresh
    \/ Navigate
    \/ Edit
    \/ KeyCtrlQ

Spec == Init /\ [][Next]_vars

\* The row functions on every row text over a letter and the tab.
InitRow ==
    /\ Constructed
    /\ pc = "fn"
    /\ args = None /\ disk = None /\ typed = {}
    /\ call \in {[op |-> "new", row |-> NewRow(s, 0)] :
                    s \in Strings({"a", TAB}, MaxRowLen)}

NextRow ==
    \/ CallUpdateRow
    \/ CallCxToRx
    \/ CallRxToCx

\* A session of searching: the cursor keys and the search prompt, no edit.
Str_foo == <<"f", "o", "o", LF, "b", "a", "r", LF, "f", "o", "o", LF>>

InitFind ==
    /\ Constructed
    /\ pc = "start"
    /\ call = NoCall
    /\ typed = {"f", "o"}
    /\ args = Some(Name_rs)
    /\ disk = Some(Str_foo)

Prompt ==
    \/ PromptEnter
    \/ PromptErase
    \/ PromptEscape
    \/ PromptOther
    \/ PromptForward
    \/ PromptBackward
    \/ PromptKey

NextFind ==
    \/ Open
    \/ Refresh
    \/ Navigate
    \/ KeyCtrlF
    \/ Prompt

SpecFind == InitFind /\ [][NextFind]_vars

\* Search sessions with deletions between them.
Str_aba == <<"a", LF, "b", LF, "a", LF>>

InitFindEdit ==
    /\ Constructed
    /\ pc = "start"
    /\ call = NoCall
    /\ typed = {"a", "b"}
    /\ args = Some(Name_rs)
    /\ disk = Some(Str_aba)

NextFindEdit ==
    \/ Open
    \/ Refresh
    \/ KeyArrow
    \/ KeyBackspace
    \/ KeyDelete
    \/ KeyCtrlF
    \/ Prompt

SpecFindEdit == InitFindEdit /\ [][NextFindEdit]_vars

\* A session of searching a file that has no syntax profile.
InitFindPlain ==
    /\ Constructed
    /\ pc = "start"
    /\ call = NoCall
    /\ typed = {"a", "b"}
    /\ args = Some(Name_t)
    /\ disk = Some(<<"a", "b", LF, "b", LF>>)

SpecFindPlain == InitFindPlain /\ [][NextFind]_vars

\* Source files of comment delimiters, opened and shown.
InitComment ==
    /\ Constructed
    /\ pc = "start"
    /\ call = NoCall
    /\ typed = {}
    /\ args = Some(Name_rs)
    /\ disk \in {Some(b) : b \in Strings({"/", "*", "a", LF}, MaxSrcLen)}

SpecComment == InitComment /\ [][Open \/ Refresh]_vars

\* A session of edits and saves of a file that has a name; the cursor moves
\* with the edits only.  The row index insertions only ever raise is kept
\* within a bound.
InitDirty ==
    /\ Constructed
    /\ pc = "start"
    /\ call = NoCall
    /\ typed = {"a"}
    /\ args = Some(Name_t)
    /\ disk = Some(<<"a", LF, "a", LF>>)

NextDirty ==
    \/ Open
    \/ Refresh
    \/ KeyEnter /\ \A k \in 1..Len(erow') : erow'[k].idx <= MaxRows
    \/ KeyDelete
    \/ KeyBackspace
    \/ KeyOther
    \/ KeyCtrlS

SpecDirty == InitDirty /\ [][NextDirty]_vars

\* A session of editing a source file that holds a block comment.
Str_comment == <<"/", "*", " ", "a", LF, "b", " ", "*", "/", LF, "c", LF>>

InitHl ==
    /\ Constructed
    /\ pc = "start"
    /\ call = NoCall
    /\ typed = {"a"}
    /\ args = Some(Name_rs)
    /\ disk = Some(Str_comment)

SpecHl == InitHl /\ [][Next]_vars

\* A session of editing a two-line source file with a number in it,
\* highlighted as loaded.
InitRs ==
    /\ Constructed
    /\ pc = "start"
    /\ call = NoCall
    /\ typed = {"a"}
    /\ args = Some(Name_rs)
    /\ disk = Some(<<"1", LF, "b", LF>>)

SpecRs == InitRs /\ [][Next]_vars

SpecRow == InitRow /\ [][NextRow]_vars

\* editor_scroll on a three-row document from every cursor position (the
\* virtual row and columns past the end of the row among them), every stale
\* rx and every pair of offsets up to MaxOff.
InitScroll ==
    /\ Constructed
    /\ pc = "fn"
    /\ args = None /\ disk = None /\ typed = {}
    /\ call \in {[op |-> "view",
                  e |-> [InsertLines(E, <<<<"a", TAB, "b">>, <<>>, <<"a", "b">>>>, 1)
                            EXCEPT !.cy = y, !.cx = x, !.rx = r,
                                   !.row_off = ro, !.col_off = co]] :
                    y \in 0..3, x \in 0..MaxOff, r \in 0..MaxOff,
                    ro \in 0..MaxOff, co \in 0..MaxOff}

NextScroll == CallScroll

SpecScroll == InitScroll /\ [][NextScroll]_vars

\* read_key on every stream of read outcomes up to MaxInput long: bytes that
\* start, continue, complete or break an escape sequence, plain keys, reads
\* that time out and reads that fail.
KeyBytes ==
    {Lit("ESC"), Lit("["), Lit("O"), Lit("5"), Lit("9"), Lit("~"), Lit("A"), Lit("H"),
     Lit("\r"), ctrl_key(Lit("q"))}

\* Every single byte; ESC, then [ or O or a letter, then every byte; ESC [,
\* a digit, then ~ or a letter.
KeySequences ==
    {<<Data(c)>> : c \in 0..255}
        \cup {<<Data(Lit("ESC")), Data(p), Data(c)>> :
                 p \in {Lit("["), Lit("O"), Lit("q")}, c \in 0..255}
        \cup {<<Data(Lit("ESC")), Data(Lit("[")), Data(d), Data(t)>> :
                 d \in 48..57, t \in {Lit("~"), Lit("q")}}

InitKey ==
    /\ Constructed
    /\ pc = "fn"
    /\ args = None /\ disk = None /\ typed = {}
    /\ call \in {[op |-> "input", input |-> s] :
                    s \in Strings({Timeout, Failed} \cup {Data(c) : c \in KeyBytes},
                                  MaxInput) \cup KeySequences}

NextKey == CallReadKey

SpecKey == InitKey /\ [][NextKey]_vars

\* editor_free_row and editor_insert_row on every small document as loaded,
\* at every position up to one past the row count.
InitDoc ==
    /\ Constructed
    /\ pc = "fn"
    /\ args = None /\ disk = None /\ typed = {}
    /\ call \in {[op |-> "doc", e |-> editor_open(E, Name_t, content),
                  at |-> at, s |-> s] :
                    content \in Strings({"a", LF}, MaxFileLen),
                    at \in 0..(MaxFileLen + 1),
                    s \in {<<>>, <<"a">>, <<TAB, "b">>}}

NextDoc ==
    \/ CallFreeRow
    \/ CallInsertRow

SpecDoc == InitDoc /\ [][NextDoc]_vars

\* Load and save of every small file, with no edit in between.
InitLoad ==
    /\ Constructed
    /\ pc = "start"
    /\ call = NoCall
    /\ typed = {}
    /\ args \in {Some(Name_t), Some(Name_rs)}
    /\ disk \in {None} \cup
                {Some(b) : b \in Strings({"a", "b", LF, CR}, MaxFileLen)}

NextLoad ==
    \/ Open
    \/ Refresh
    \/ KeyCtrlS

SpecLoad == InitLoad /\ [][NextLoad]_vars

\* A session without a file name: rows are added, the document is saved
\* through the Save-as prompt and saved again under the name it got.
InitSave ==
    /\ Constructed
    /\ pc = "start"
    /\ call = NoCall
    /\ typed = {".", "r", "s"}
    /\ args = None
    /\ disk = None

NextSave ==
    \/ Open
    \/ Refresh
    \/ KeyEnter
    \/ KeyCtrlS
    \/ Prompt

SpecSave == InitSave /\ [][NextSave]_vars

\* ------------------------------------------------------------ properties
RECURSIVE TabExpanded(_, _, _, _)
\* render, from column p on, is chars from its k-th character on with every
\* tab turned into 1..TAB_STOP spaces that end on a tab stop and every other
\* character copied.
TabExpanded(chars, render, k, p) ==
    IF k > Len(chars) THEN p = Len(render)
    ELSE IF chars[k] = TAB
         THEN \E w \in 1..TAB_STOP :
                  /\ (p + w) % TAB_STOP = 0
                  /\ p + w <= Len(render)
                  /\ \A j \in (p + 1)..(p + w) : render[j] = " "
                  /\ TabExpanded(chars, render, k + 1, p + w)
         ELSE /\ p + 1 <= Len(render)
              /\ render[p + 1] = chars[k]
              /\ TabExpanded(chars, render, k + 1, p + 1)

\* C4: for every row and every logical column cx from 0 to the number of
\* characters of the row, editor_row_rx_to_cx(row, editor_row_cx_to_rx(row,
\* cx)) = cx.
C4_ColumnMappingInverse ==
    call.op = "rx_to_cx" => call.back = call.cx

\* Every line of the file ends in a newline and holds no carriage return.
NewlineTerminated(bytes) ==
    /\ bytes = <<>> \/ bytes[Len(bytes)] = LF
    /\ \A k \in 1..Len(bytes) : bytes[k] # CR

\* C9: a document loaded from a file whose lines each end in a newline and
\* hold no carriage return, and not edited, has one row per line and to_text
\* equal to the file content, so that saving it reproduces the file.
C9_RoundTrip ==
    (pc \in {"refresh", "key"} /\ NewlineTerminated(Unwrap(disk))) =>
        /\ editor_row_to_string(E) = Unwrap(disk)
        /\ Len(erow) = Cardinality({k \in 1..Len(Unwrap(disk)) :
                                       Unwrap(disk)[k] = LF})

C9_Witness ==
    /\ pc = "key"
    /\ dirty = 0
    /\ disk = Some(<<"b", LF, "a", LF>>)
    /\ Len(erow) = 2
    /\ erow[1].chars = <<"b">>
    /\ erow[2].chars = <<"a">>

\* C10: update_row renders every tab as between 1 and TAB_STOP spaces such
\* that the rendered column right after the tab is a multiple of TAB_STOP,
\* and copies every other character unchanged; so the render is at least as
\* long as the chars.
C10_TabExpansion ==
    call.op = "update_row" =>
        /\ TabExpanded(call.row.chars, call.row.render, 1, 0)
        /\ Len(call.row.render) >= Len(call.row.chars)
        /\ call.row.r_size = Len(call.row.render)

\* A tab in column 7 rendered as one space, and a tab in column 0 as eight.
C10_Witness ==
    /\ call.op = "update_row"
    /\ call.row.chars = <<TAB, "a", "a", "a", "a", "a", "a", TAB>>
    /\ Len(call.row.render) = 2 * TAB_STOP

\* C1: in every reachable state of an editing session the program has not
\* crashed and the cursor is in bounds: cy <= row count, cx <= the number of
\* characters of row cy, and cx = 0 on the virtual row past the end.
C1_CursorInBounds ==
    /\ pc # "panicked"
    /\ pc \in {"refresh", "key"} =>
           /\ cy <= Len(erow)
           /\ IF cy < Len(erow) THEN cx <= Len(erow[cy + 1].chars) ELSE cx = 0

\* Some row carries the search-match class.
HasMatch(rows) ==
    \E k \in 1..Len(rows) :
        /\ IsSome(rows[k].hl)
        /\ \E j \in 1..Len(Unwrap(rows[k].hl)) : Unwrap(rows[k].hl)[j] = Match

\* C2: when a search session ends (by Enter on a non-empty query or by
\* Escape), no row's highlight array holds the search-match class and the
\* saved-highlight snapshot is none.
C2_SearchEndRestores ==
    [][(prompt = "find" /\ prompt' = "none") =>
           (~HasMatch(erow') /\ saved_hl' = None)]_vars

\* The rows (numbered from 0) whose rendered text contains the query.
Matching(rows, query) ==
    {k \in 0..(Len(rows) - 1) : Contains(rows[k + 1].render, query)}

Least(S) == CHOOSE k \in S : \A j \in S : k <= j

\* The first member of S after m, wrapping to the least member of S.
NextAfter(m, S) ==
    IF \E k \in S : k > m THEN Least({k \in S : k > m}) ELSE Least(S)

\* C3: a search with no prior match lands on the first row from row 0 whose
\* rendered text contains the query (row 0 of "foo", "bar", "foo" for the
\* query "foo"); every forward step (ArrowRight, ArrowDown) lands on the next
\* such row in increasing order, wrapping after the last (row 2, then row 0).
C3_SearchWraparound ==
    [][/\ (PromptOther /\ buf' # buf /\ Matching(erow, buf') # {}) =>
              /\ last_match' = Some(Least(Matching(erow, buf')))
              /\ cy' = Least(Matching(erow, buf'))
       /\ (PromptForward /\ IsSome(last_match) /\ Matching(erow, buf) # {}) =>
              /\ last_match' = Some(NextAfter(Unwrap(last_match),
                                              Matching(erow, buf)))
              /\ cy' = NextAfter(Unwrap(last_match), Matching(erow, buf))]_vars

\* C5: a quit command on a dirty document with the quit counter above zero
\* decrements the counter by exactly one and the main loop goes on; any
\* other quit command exits; and the loop exits only on a quit command given
\* when the counter is zero or the document is clean.
C5_QuitGating ==
    [][/\ KeyCtrlQ =>
              IF dirty > 0 /\ quit_times > 0
              THEN quit_times' = quit_times - 1 /\ pc' = "refresh"
              ELSE pc' = "exited"
       /\ (pc # "exited" /\ pc' = "exited") =>
              KeyCtrlQ /\ (dirty = 0 \/ quit_times = 0)]_vars

\* The loop left on the quit command that found the counter at zero on a
\* dirty document.
C5_Witness == pc = "exited" /\ dirty > 0 /\ quit_times = 0

\* C6: after the main loop has processed any key other than the quit
\* command, the quit counter equals QUIT_TIMES.
C6_QuitCounterReset ==
    [][(InMainLoop /\ ~KeyCtrlQ /\ pc' = "refresh") =>
           quit_times' = QUIT_TIMES]_vars

\* C7: Backspace with the cursor at column 0 of a row r > 0 replaces rows
\* r-1 and r by chars(r-1) ++ chars(r), leaves the other rows unchanged and
\* in order, decrements the row count, and puts the cursor on row r-1 at the
\* column equal to the former number of characters of row r-1.
C7_JoinAtStart ==
    [][(KeyBackspace /\ cx = 0 /\ cy > 0 /\ cy < Len(erow)) =>
           /\ Len(erow') = Len(erow) - 1
           /\ number_of_rows' = number_of_rows - 1
           /\ erow'[cy].chars = erow[cy].chars \o erow[cy + 1].chars
           /\ \A k \in 1..(cy - 1) : erow'[k].chars = erow[k].chars
           /\ \A k \in (cy + 1)..Len(erow') : erow'[k].chars = erow[k + 1].chars
           /\ cy' = cy - 1
           /\ cx' = Len(erow[cy].chars)]_vars

\* Every rendered column of the row carries the class.
AllClass(row, class) ==
    /\ IsSome(row.hl)
    /\ Len(Unwrap(row.hl)) = Len(row.render)
    /\ \A j \in 1..Len(row.render) : Unwrap(row.hl)[j] = class

\* C8: with the block-comment delimiters active, rows "/* a", "b */", "c"
\* as loaded have every column of rows 0 and 1 classed block comment and row
\* 2 normal; once row 1 no longer contains the closing delimiter (and row 2
\* holds none), every column of row 2 is classed block comment as well.
C8_HighlightPropagation ==
    (pc \in {"refresh", "key"} /\ IsSome(syntax) /\ Len(erow) = 3
        /\ erow[1].chars = <<"/", "*", " ", "a">>) =>
        /\ (dirty = 0 /\ erow[2].chars = <<"b", " ", "*", "/">>
               /\ erow[3].chars = <<"c">>) =>
               /\ AllClass(erow[1], HlMComment)
               /\ AllClass(erow[2], HlMComment)
               /\ AllClass(erow[3], Normal)
        /\ (~Contains(erow[2].chars, <<"*", "/">>)
               /\ ~Contains(erow[3].chars, <<"*", "/">>)) =>
               AllClass(erow[3], HlMComment)

\* C11: with a syntax profile active, in every reachable state each row's
\* highlight array has exactly one entry per rendered column.
C11_HighlightLength ==
    (pc \in {"refresh", "key"} /\ IsSome(syntax)) =>
        \A k \in 1..Len(erow) :
            /\ IsSome(erow[k].hl)
            /\ Len(Unwrap(erow[k].hl)) = Len(erow[k].render)

\* C12: in every reachable state every row's stored index equals its
\* position in the document.
C12_RowIndex ==
    pc \in {"refresh", "key"} => \A i \in 0..(Len(erow) - 1) : erow[i + 1].idx = i

\* The rows (numbered from 0) that hold a search-match cell.
MatchRows(rows) ==
    {k \in 0..(Len(rows) - 1) : HasMatch(<<rows[k + 1]>>)}

\* C13: in every reachable state, across search sessions and the edits
\* between them, at most one row of the document holds search-match cells.
C13_OneRowOverlaid ==
    pc \in {"refresh", "key"} => Cardinality(MatchRows(erow)) <= 1

\* The cursor and the scroll offsets.
Position == [cx |-> cx, cy |-> cy, row_off |-> row_off, col_off |-> col_off]

\* C14: the position saved when a search begins is the cursor and the scroll
\* offsets of that moment, it is kept for the whole session, and a session
\* cancelled with Escape ends with the cursor and the scroll offsets equal
\* to it, whatever matches were visited.
C14_EscapeRestoresPosition ==
    [][/\ KeyCtrlF => saved_pos' = Position
       /\ (prompt = "find" /\ prompt' = "find") => saved_pos' = saved_pos
       /\ (prompt = "find" /\ PromptEscape) =>
              /\ Position' = saved_pos
              /\ prompt' = "none"]_vars

\* A search begun at the top of the file and cancelled after the match on
\* row 2 had moved the cursor and the row offset.
C14_Witness ==
    /\ pc = "refresh"
    /\ prompt = "none"
    /\ last_match = Some(2)
    /\ MatchRows(erow) = {2}
    /\ saved_pos = [cx |-> 0, cy |-> 0, row_off |-> 0, col_off |-> 0]
    /\ Position = saved_pos

\* C15: in the search prompt every decoded keystroke (printable character,
\* erase, arrow, Enter with an empty or a non-empty buffer, Escape) is
\* followed by exactly one call of the callback, with the current buffer.
C15_CallbackEveryKey ==
    [][(prompt = "find" /\ Prompt) =>
           /\ Len(cb') = 1
           /\ prompt' = "find" => cb'[1].query = buf']_vars

Dist(a, b) == IF a < b THEN b - a ELSE a - b

\* C16: after editor_scroll, row_off <= cy < row_off + screen_rows and
\* col_off <= rx < col_off + screen_cols, from any cursor position and any
\* prior offsets; an offset that satisfied its bounds is unchanged, and
\* otherwise it is the satisfying value nearest to the prior one.
C16_ScrollPostcondition ==
    call.op = "scroll" =>
        LET b == call.before
            a == call.after
            RowOk(v) == v <= a.cy /\ a.cy < v + screen_rows
            ColOk(v) == v <= a.rx /\ a.rx < v + screen_cols
        IN /\ RowOk(a.row_off)
           /\ ColOk(a.col_off)
           /\ RowOk(b.row_off) => a.row_off = b.row_off
           /\ ColOk(b.col_off) => a.col_off = b.col_off
           /\ \A v \in 0..(a.cy + b.row_off) :
                  RowOk(v) => Dist(a.row_off, b.row_off) <= Dist(v, b.row_off)
           /\ \A v \in 0..(a.rx + b.col_off) :
                  ColOk(v) => Dist(a.col_off, b.col_off) <= Dist(v, b.col_off)

\* The row offset a search match left at the row count comes back to the
\* cursor row, and the column offset follows the cursor past a tab.
C16_Witness ==
    /\ call.op = "scroll"
    /\ call.before.row_off = 3
    /\ call.before.cy = 0
    /\ call.after.row_off = 0
    /\ call.before.col_off = 0
    /\ call.after.rx = 8
    /\ call.after.col_off = 5

\* C17: producing a frame changes no editor state other than row_off,
\* col_off and rx: the rows, cx, cy, dirty, the quit counter, the file
\* name, the syntax profile and the saved-highlight snapshot are unchanged.
C17_FrameChangesViewOnly ==
    [][Refresh => UNCHANGED <<cx, cy, dirty, number_of_rows, quit_times, erow,
                              filename, saved_hl, saved_hl_line, syntax>>]_vars

\* A frame that scrolled: the cursor is on row 2 of an edited document and
\* the first visible row is row 1.
C17_Witness ==
    /\ pc = "key"
    /\ dirty > 0
    /\ cy = 2
    /\ row_off = 1

\* A read that brought a byte.
Got(r) == r.res = "Ok" /\ r.n > 0

\* C18: every call of the key decoder whose first read does not fail returns
\* exactly one key event after at most 4 single-byte reads (the first byte,
\* at most two lookahead bytes and only after ESC, a fourth only after
\* ESC [ digit); every read before the last one brought a byte, so it stops
\* reading at the first read that times out; and ESC followed by a read that
\* brings nothing, at once or in the middle of a sequence, is the Escape key,
\* never an error.
C18_DecoderBounded ==
    (call.op = "read_key" /\ Rd(call.input, 1).res = "Ok") =>
        LET r == call.result
            input == call.input
        IN /\ r.res = "Ok"
           /\ r.key.kind \in EditorKey
           /\ r.reads \in 1..4
           /\ \A k \in 1..(r.reads - 1) : Got(Rd(input, k))
           /\ r.reads > 1 => Rd(input, 1) = Data(Lit("ESC"))
           /\ r.reads = 4 =>
                  /\ Rd(input, 2) = Data(Lit("["))
                  /\ is_ascii_digit(Rd(input, 3).byte)
           /\ (/\ Rd(input, 1) = Data(Lit("ESC"))
               /\ \E k \in 2..r.reads : ~Got(Rd(input, k))) =>
                  r.key = Key("Escape")

\* ESC [ 5 and then nothing: the fourth read times out and the key is Escape.
C18_Witness ==
    /\ call.op = "read_key"
    /\ call.input = <<Data(Lit("ESC")), Data(Lit("[")), Data(Lit("5"))>>
    /\ call.result = [res |-> "Ok", key |-> Key("Escape"), reads |-> 4]

\* The text of every row: its characters, its render form, its cached size.
RowTexts(rows) ==
    [k \in 1..Len(rows) |->
        [chars |-> rows[k].chars, render |-> rows[k].render, size |-> rows[k].size]]

\* C19 (as stated): a save whose write fails (with the name the document
\* had, or with the name the Save-as prompt returned) or whose Save-as prompt
\* is cancelled leaves the dirty counter and all rows unchanged.
C19_SaveFailureLeavesRows ==
    [][(\/ KeyCtrlS /\ IsSome(filename) /\ WriteErr(E)
        \/ prompt = "save" /\ PromptEnter /\ buf # <<>> /\ WriteErr(save_as(E, buf))
        \/ prompt = "save" /\ PromptEscape) =>
           /\ dirty' = dirty
           /\ erow' = erow]_vars

\* C19 (amended): a save whose write fails under the name the document had,
\* or whose Save-as prompt is cancelled, leaves the dirty counter, the rows,
\* the file name, the syntax profile and the file unchanged; a Save-as whose
\* write fails keeps the dirty counter and the text of every row, and has
\* assigned the name and selected its syntax profile, re-highlighting the
\* rows; dirty goes to 0 only in a save step that leaves the document's text
\* in the file; after every save step the main loop goes on.
C19_SaveFailureKeepsDocument ==
    [][/\ (\/ KeyCtrlS /\ IsSome(filename) /\ WriteErr(E)
           \/ prompt = "save" /\ PromptEscape) =>
              UNCHANGED <<dirty, erow, filename, syntax, disk>>
       /\ (prompt = "save" /\ PromptEnter /\ buf # <<>>
               /\ WriteErr(save_as(E, buf))) =>
              /\ dirty' = dirty
              /\ RowTexts(erow') = RowTexts(erow)
              /\ filename' = Some(buf)
              /\ erow' = save_as(E, buf).erow
              /\ syntax' = save_as(E, buf).syntax
              /\ disk' = disk
       /\ (dirty # 0 /\ dirty' = 0) =>
              /\ \/ KeyCtrlS /\ IsSome(filename)
                 \/ prompt = "save" /\ PromptEnter /\ buf # <<>>
              /\ disk' = Some(editor_row_to_string(E))
              /\ RowTexts(erow') = RowTexts(erow)
       /\ (\/ KeyCtrlS /\ IsSome(filename)
           \/ prompt = "save" /\ PromptEnter /\ buf # <<>>
           \/ prompt = "save" /\ PromptEscape) =>
              /\ pc' = "refresh"
              /\ prompt' = "none"]_vars

\* An unsaved document whose Save-as write under the name .rs failed: the
\* name and the profile are set, nothing is on disk, dirty is still up.
C19_Witness ==
    /\ prompt = "none"
    /\ filename = Some(<<".", "r", "s">>)
    /\ IsSome(syntax)
    /\ disk = None
    /\ dirty > 0
    /\ \A k \in 1..Len(erow) : IsSome(erow[k].hl)
    /\ Len(erow) > 0

\* The highlighter's result on the row at index i of rows: its render text
\* scanned from column 0 with every column Normal, seeded with the trailing
\* open-comment flag the row above has now (FALSE for row 0).
Highlighted(profile, rows, i) ==
    SyntaxScan(Syntax(profile), rows[i + 1].render, 0,
               [j \in 1..Len(rows[i + 1].render) |-> Normal], TRUE,
               IF i > 0 THEN rows[i].hl_open_comment ELSE FALSE)

\* Row i carries exactly what the highlighter gives for it.
Consistent(profile, rows, i) ==
    /\ rows[i + 1].hl = Some(Highlighted(profile, rows, i).hl)
    /\ rows[i + 1].hl_open_comment = Highlighted(profile, rows, i).in_comment

\* C20: with a syntax profile active and no search match overlaid, an
\* editing operation (character insert, Backspace, Delete, Enter) on a
\* document whose rows all carry the highlighter's result leaves every row
\* carrying the highlighter's result: its highlight array and its trailing
\* open-comment flag equal the highlighter's output on its current render
\* text seeded with the current flag of the row above.
C20_HighlightConsistency ==
    [][(/\ Edit
        /\ IsSome(syntax)
        /\ pc' = "refresh"
        /\ \A i \in 0..(Len(erow) - 1) : Consistent(Unwrap(syntax), erow, i)) =>
           \A i \in 0..(Len(erow') - 1) : Consistent(Unwrap(syntax'), erow', i)]_vars

\* C21: in every state a frame has just been drawn from (editor_scroll has
\* run and the program waits for a key), rx is the rendered column of cx in
\* row cy, and it is 0 when the cursor is on the virtual row past the last
\* row.
C21_RenderedColumn ==
    pc = "key" =>
        IF cy < number_of_rows
        THEN rx = editor_row_cx_to_rx(erow[cy + 1], cx)
        ELSE cx = 0 => rx = 0

\* The row: its text and render form, without its stored index.
RowText(row) == [chars |-> row.chars, render |-> row.render, size |-> row.size]

\* C22: editor_free_row(at) with at >= row count changes nothing; with
\* at < row count it returns having removed exactly row at: the other rows
\* keep their text and order, the rows before at keep their index, the rows
\* after at have their index decreased by 1, the row count is decremented
\* and dirty incremented, for every at, 0 included.
C22_FreeRow ==
    call.op = "free_row" =>
        LET before == call.before
            after == call.result.e
            at == call.at
            n == Len(before.erow)
        IN IF at >= n THEN ~call.result.panicked /\ after = before
           ELSE /\ ~call.result.panicked
                /\ Len(after.erow) = n - 1
                /\ after.number_of_rows = before.number_of_rows - 1
                /\ after.dirty = before.dirty + 1
                /\ \A j \in 0..(at - 1) : after.erow[j + 1] = before.erow[j + 1]
                /\ \A j \in at..(n - 2) :
                       /\ RowText(after.erow[j + 1]) = RowText(before.erow[j + 2])
                       /\ after.erow[j + 1].idx = before.erow[j + 2].idx - 1

\* C23: editor_insert_row(at, s) inserts a row for every at, an at greater
\* than the row count counting as the row count: the row count grows by 1,
\* the new row has chars = s and its render form, the rows before it are
\* unchanged and dirty is incremented.
C23_InsertRow ==
    call.op = "insert_row" =>
        LET before == call.before
            after == call.after
            n == Len(before.erow)
            at == IF call.at > n THEN n ELSE call.at
        IN /\ Len(after.erow) = n + 1
           /\ after.number_of_rows = n + 1
           /\ after.dirty = before.dirty + 1
           /\ after.erow[at + 1].chars = call.s
           /\ after.erow[at + 1].render = update_row(NewRow(call.s, at)).render
           /\ \A j \in 0..(at - 1) : after.erow[j + 1] = before.erow[j + 1]

\* The characters of row i, the virtual row past the last one being empty.
CharsAt(rows, i) == IF i < Len(rows) THEN rows[i + 1].chars ELSE <<>>

\* C24: typing a printable character c with the cursor at (cx, cy), on a row
\* or on the virtual row (where an empty row is appended first), leaves row
\* cy holding its old characters with c inserted at position cx, cx
\* increased by 1 and so just after c, the text of every other row
\* unchanged, and dirty increased.
C24_InsertChar ==
    [][(KeyOther /\ pc' = "refresh" /\ dirty' # dirty) =>
           /\ dirty' > dirty
           /\ cy' = cy /\ cx' = cx + 1
           /\ Len(erow') = (IF cy = Len(erow) THEN Len(erow) + 1 ELSE Len(erow))
           /\ cx <= Len(CharsAt(erow, cy))
           /\ \E c \in typed :
                  erow'[cy + 1].chars =
                      Slice(CharsAt(erow, cy), 0, cx) \o <<c>>
                          \o Slice(CharsAt(erow, cy), cx, Len(CharsAt(erow, cy)))
           /\ \A i \in 0..(Len(erow) - 1) :
                  i # cy => RowText(erow'[i + 1]) = RowText(erow[i + 1])]_vars

\* The characters of the rows one after another.
RECURSIVE AllChars(_)
AllChars(rows) ==
    IF rows = <<>> THEN <<>>
    ELSE rows[1].chars \o AllChars(Tail(rows))

\* C25: Enter with the cursor (cx, cy) on an existing row: with cx = 0 an
\* empty row goes in at cy and the row moves to cy + 1; otherwise row cy
\* keeps chars[0..cx) and a new row with chars[cx..) goes in at cy + 1; the
\* characters of all rows one after another are unchanged, the row count
\* grows by 1 and the cursor ends at column 0 of row cy + 1.
C25_SplitLine ==
    [][(KeyEnter /\ cy < Len(erow)) =>
           /\ pc' = "refresh"
           /\ Len(erow') = Len(erow) + 1
           /\ number_of_rows' = number_of_rows + 1
           /\ cy' = cy + 1 /\ cx' = 0
           /\ cx <= Len(erow[cy + 1].chars)
           /\ erow'[cy + 1].chars = Slice(erow[cy + 1].chars, 0, cx)
           /\ erow'[cy + 2].chars =
                  Slice(erow[cy + 1].chars, cx, Len(erow[cy + 1].chars))
           /\ AllChars(erow') = AllChars(erow)]_vars

\* C26: Backspace with the cursor at row 0, column 0, or on the virtual row
\* past the last row, changes nothing: the rows (text, render form,
\* highlight, open-comment flag, index), the row count, cx, cy, the dirty
\* counter, the saved highlight and the syntax profile are as before.
C26_BackspaceNoOp ==
    [][(KeyBackspace /\ (cy >= Len(erow) \/ (cx = 0 /\ cy = 0))) =>
           UNCHANGED <<erow, number_of_rows, cx, cy, dirty, saved_hl,
                       saved_hl_line, syntax>>]_vars

\* The cursor on the virtual row of an edited, highlighted document, a key
\* just processed.
C26_Witness ==
    /\ pc = "refresh"
    /\ IsSome(syntax)
    /\ dirty > 0
    /\ Len(erow) = 2
    /\ erow[1].hl = Some(<<Number, Normal>>)
    /\ cy = Len(erow) /\ cx = 0

\* The key the byte sequence stands for: the bytes that reads 2, 3 and 4
\* brought are p, q and t, a read that brought nothing counting as byte 0.
KeyOf(c, p, q, t) ==
    CASE c \in {13, 10} -> Key("EnterKey")
      [] c \in {127, 8} -> Key("Backspace")
      [] c = 17 -> Key("CtrlQ")
      [] c = 19 -> Key("CtrlS")
      [] c = 6 -> Key("CtrlF")
      [] c = 12 -> Key("CtrlL")
      [] c = 27 /\ p = 91 /\ q = 65 -> Key("ArrowUp")
      [] c = 27 /\ p = 91 /\ q = 66 -> Key("ArrowDown")
      [] c = 27 /\ p = 91 /\ q = 67 -> Key("ArrowRight")
      [] c = 27 /\ p = 91 /\ q = 68 -> Key("ArrowLeft")
      [] c = 27 /\ p \in {91, 79} /\ q = 72 -> Key("HomeKey")
      [] c = 27 /\ p \in {91, 79} /\ q = 70 -> Key("EndKey")
      [] c = 27 /\ p = 91 /\ q \in {49, 55} /\ t = 126 -> Key("HomeKey")
      [] c = 27 /\ p = 91 /\ q = 51 /\ t = 126 -> Key("Delete")
      [] c = 27 /\ p = 91 /\ q \in {52, 56} /\ t = 126 -> Key("EndKey")
      [] c = 27 /\ p = 91 /\ q = 53 /\ t = 126 -> Key("PageUp")
      [] c = 27 /\ p = 91 /\ q = 54 /\ t = 126 -> Key("PageDown")
      [] c = 27 -> Key("Escape")
      [] OTHER -> Other(c)

\* C27: the decoder maps CR and LF to Enter, 127 and 8 to Backspace, the
\* control bytes of q, s, f, l to quit, save, find, refresh, ESC [ A/B/C/D to
\* the arrows up/down/right/left, ESC [ H and ESC O H to Home, ESC [ F and
\* ESC O F to End, ESC [ d ~ to Home (d = 1, 7), Delete (3), End (4, 8),
\* PageUp (5), PageDown (6), everything else after ESC to Escape, and any
\* other single byte b to Other(b).
C27_DecoderMapping ==
    (call.op = "read_key" /\ Got(Rd(call.input, 1))) =>
        LET input == call.input
            p == IF Got(Rd(input, 2)) THEN Rd(input, 2).byte ELSE 0
            q == IF p # 0 /\ Got(Rd(input, 3)) THEN Rd(input, 3).byte ELSE 0
            t == IF q # 0 /\ Got(Rd(input, 4)) THEN Rd(input, 4).byte ELSE 0
        IN call.result = [res |-> "Ok", key |-> KeyOf(input[1].byte, p, q, t),
                          reads |-> call.result.reads]

\* ESC [ 3 ~ read as Delete, in four reads.
C27_Witness ==
    /\ call.op = "read_key"
    /\ call.input = <<Data(27), Data(91), Data(51), Data(126)>>
    /\ call.result = [res |-> "Ok", key |-> Key("Delete"), reads |-> 4]

\* The member of S nearest before m in decreasing row order, wrapping from
\* row 0 to the last row; m itself comes last.
PrevBefore(m, S) ==
    IF \E k \in S : k < m THEN CHOOSE k \in S : k < m /\ \A j \in S : j < m => j <= k
    ELSE CHOOSE k \in S : \A j \in S : j <= k

\* What C28 says of the keys other than ArrowLeft/ArrowUp, and of the step
\* either arrow makes: a forward arrow leaves the direction forward; an arrow
\* keeps last_match when nothing is found; any other key that reaches the
\* closure leaves the direction forward and last_match none, or the row the
\* fresh search found; a backward step from a prior match on row m lands on
\* the nearest row before m (wrapping) whose rendered text contains the query.
SearchKeys ==
    /\ PromptForward => direction' = 1
    /\ ((PromptForward \/ PromptBackward)
            /\ (buf = <<>> \/ Matching(erow, buf) = {})) =>
           last_match' = last_match
    /\ (PromptOther \/ PromptErase \/ PromptKey) =>
           /\ direction' = 1
           /\ IF buf' = <<>> \/ Matching(erow, buf') = {}
              THEN last_match' = None
              ELSE /\ IsSome(last_match')
                   /\ Unwrap(last_match') \in Matching(erow, buf')
    /\ (PromptBackward /\ IsSome(last_match) /\ Matching(erow, buf) # {}) =>
           /\ last_match' = Some(PrevBefore(Unwrap(last_match),
                                            Matching(erow, buf)))
           /\ cy' = PrevBefore(Unwrap(last_match), Matching(erow, buf))

\* C28 (as stated): in a search session ArrowRight/ArrowDown set the
\* direction to forward and ArrowLeft/ArrowUp set it to backward, keeping
\* last_match; any other key resets last_match to none and the direction to
\* forward; a backward step from a prior match on row m lands on the nearest
\* row before m, wrapping, whose rendered text contains the query.
C28_SearchStateMachine ==
    [][prompt = "find" =>
           /\ SearchKeys
           /\ PromptBackward => direction' = 0 - 1]_vars

\* C28 (amended): as stated, but ArrowLeft/ArrowUp leave the direction
\* backward only when there is a prior match or the query is empty; with a
\* non-empty query and no prior match the closure puts the direction back to
\* forward.
C28_SearchDirection ==
    [][prompt = "find" =>
           /\ SearchKeys
           /\ PromptBackward =>
                  direction' = (IF last_match = None /\ buf # <<>> /\ erow # <<>>
                                THEN 1 ELSE 0 - 1)]_vars

\* The query f found on row 2, then ArrowLeft: the backward step landed on
\* row 0.
C28_Witness ==
    /\ prompt = "find"
    /\ cb = <<[query |-> <<"f">>, key |-> "ArrowLeft"]>>
    /\ direction = 0 - 1
    /\ last_match = Some(0)
    /\ cy = 0

\* C29: a keystroke that reaches the search with a non-empty query ends
\* (the prompt loop goes on); the scan goes once around the document from
\* the prior match (or row 0) in the current direction and stops at the
\* first row whose rendered text contains the query, so whenever some row
\* contains the query cy ends on the first such row in scan order, which is
\* recorded as the match; when no row contains it the cursor row stays.
C29_ScanOnce ==
    [][(/\ prompt = "find"
        /\ \/ PromptOther
           \/ PromptErase
           \/ PromptKey
           \/ PromptForward
           \/ PromptBackward
        /\ buf' # <<>>) =>
           LET rows == Matching(erow, buf')
               prior == (PromptForward \/ PromptBackward) /\ IsSome(last_match)
               start == IF prior THEN Unwrap(last_match) ELSE 0
           IN /\ pc' = "refresh"
              /\ rows # {} =>
                     /\ cy' \in rows
                     /\ cy' = (IF prior /\ PromptBackward
                               THEN PrevBefore(start, rows)
                               ELSE NextAfter(start, rows))
                     /\ last_match' = Some(cy')
              /\ rows = {} => cy' = cy]_vars

\* The query f found on row 2, then ArrowRight: the scan wrapped to row 0.
C29_Witness ==
    /\ prompt = "find"
    /\ cb = <<[query |-> <<"f">>, key |-> "ArrowRight"]>>
    /\ last_match = Some(0)
    /\ cy = 0
    /\ MatchRows(erow) = {0}

\* A keystroke that reaches the scan of the search closure.
SearchKey ==
    \/ PromptOther
    \/ PromptErase
    \/ PromptKey
    \/ PromptForward
    \/ PromptBackward

BeforeOverlay(r) ==
    IF saved_hl_line = Some(r) /\ IsSome(saved_hl) THEN saved_hl
    ELSE erow[r + 1].hl

\* The array base with the cells [m, m + n) set to the search-match class.
Overlay(base, m, n) ==
    [j \in 1..Len(base) |->
        IF m <= j - 1 /\ j - 1 < m + n THEN Match ELSE base[j]]

\* C31: when a search keystroke finds the query at rendered column m of row
\* r, in any document, afterwards cy = r, the saved snapshot holds row r's
\* highlight array as it was before the overlay together with the index r,
\* and row r's array is that array with exactly the cells
\* [m, m + length of the query) carrying the search-match class.
C31_MatchOverlay ==
    [][(prompt = "find" /\ SearchKey /\ buf' # <<>>
            /\ Matching(erow, buf') # {}) =>
           \E r \in Matching(erow, buf') :
               /\ cy' = r
               /\ saved_hl_line' = Some(r)
               /\ IsSome(saved_hl')
               /\ saved_hl' = BeforeOverlay(r)
               /\ \A j \in 1..Len(Unwrap(saved_hl')) :
                      Unwrap(saved_hl')[j] # Match
               /\ erow'[r + 1].hl =
                      Some(Overlay(Unwrap(saved_hl'),
                                   Unwrap(Find(erow[r + 1].render, buf')),
                                   Len(buf')))]_vars

\* What the comment delimiters of a row say, read from column i with a block
\* comment open or not: for every column whether it lies in a line comment,
\* in a block comment or in neither, and whether a block comment is open at
\* the end of the row.
RECURSIVE Comments(_, _, _, _)
Comments(render, i, open, marks) ==
    IF i >= Len(render) THEN [marks |-> marks, open |-> open]
    ELSE IF open
    THEN IF StartsAt(render, i, <<"*", "/">>)
         THEN Comments(render, i + 2, FALSE, marks \o <<"block", "block">>)
         ELSE Comments(render, i + 1, TRUE, Append(marks, "block"))
    ELSE IF StartsAt(render, i, <<"/", "/">>)
    THEN [marks |-> marks \o [j \in 1..(Len(render) - i) |-> "line"],
          open |-> FALSE]
    ELSE IF StartsAt(render, i, <<"/", "*">>)
    THEN Comments(render, i + 2, TRUE, marks \o <<"block", "block">>)
    ELSE Comments(render, i + 1, FALSE, Append(marks, "code"))

\* Row i of rows carries the flag and the comment classes its delimiters and
\* the flag of the row above call for.
CommentsRight(rows, i) ==
    LET row == rows[i + 1]
        c == Comments(row.render, 0,
                      IF i > 0 THEN rows[i].hl_open_comment ELSE FALSE, <<>>)
    IN /\ row.hl_open_comment = c.open
       /\ IsSome(row.hl)
       /\ Len(Unwrap(row.hl)) = Len(row.render)
       /\ \A j \in 1..Len(row.render) :
              /\ c.marks[j] = "line" <=> Unwrap(row.hl)[j] = HlComment
              /\ c.marks[j] = "block" <=> Unwrap(row.hl)[j] = HlMComment

\* C32: after a row is highlighted its trailing open-comment flag is true
\* exactly when a block comment, opened on the row or carried in from the row
\* above, is not closed by the end of the row; a block-comment start after a
\* single-line-comment delimiter outside a block comment is classed
\* line-comment with the rest of the row and does not set the flag; a
\* single-line-comment delimiter inside a block comment is classed
\* block-comment and does not stop the scan.
C32_OpenCommentFlag ==
    pc \in {"refresh", "key"} =>
        \A i \in 0..(Len(erow) - 1) : CommentsRight(erow, i)

\* The file of rows "/*" and "//": the second row is inside the block
\* comment the first one opens, and leaves it open.
C32_Witness ==
    /\ pc = "key"
    /\ Len(erow) = 2
    /\ erow[1].render = <<"/", "*">>
    /\ erow[2].render = <<"/", "/">>
    /\ erow[2].hl = Some(<<HlMComment, HlMComment>>)
    /\ erow[2].hl_open_comment

\* Every row's cached length is the length of its text.
SizesRight(rows) ==
    \A k \in 1..Len(rows) : rows[k].size = Len(rows[k].chars)

\* C33: in every reachable state every row's cached length equals the length
\* of its text (size = number of characters of chars), whatever character
\* inserts, Backspace and Delete deletions, splits and joins came before; so
\* the cursor keys that clamp against size (the arrows, End, the Backspace
\* join) never leave cx beyond the end of the row's text.
C33_CachedLength ==
    [][/\ SizesRight(erow')
       /\ ((KeyArrow \/ KeyEnd \/ KeyBackspace) /\ cy' < Len(erow')) =>
              cx' <= Len(erow'[cy' + 1].chars)]_vars

\* C34: the dirty counter never hides an unsaved change: in every reachable
\* state dirty = 0 implies that the document text (to_text) is the text of
\* the last load or successful save, which is what the file holds (the file
\* loaded here is what to_text gives for its rows); so no key event that
\* changes a row's chars or the row sequence leaves dirty at 0.
C34_DirtyNeverHides ==
    (pc \in {"refresh", "key"} /\ dirty = 0) =>
        disk = Some(RowsToString(erow, 1))

\* Edits that end with Delete at the end of row 0 (the join with the row
\* below) and a save that succeeded: one row is left, the file holds it.
C34_Witness ==
    /\ pc = "key"
    /\ dirty = 0
    /\ Len(erow) = 1
    /\ disk = Some(<<"a", "a", LF>>)
    /\ cx = 1
    /\ cy = 0

\* The main loop takes a read that timed out, Other(0): a step of KeyOther
\* that inserts no character.
TimedOutRead == KeyOther /\ dirty' = dirty

\* C35: a key read that times out with no input byte, decoded as Other(0),
\* leaves the whole editor state unchanged: the rows, the cursor, dirty and
\* the quit counter, so idle time between quit commands does not reset a
\* pending quit confirmation on a dirty document.
C35_IdleReadChangesNothing ==
    [][TimedOutRead => UNCHANGED edvars]_vars

\* C36: after a search keystroke finds the query at rendered column m of row
\* r, cx is the logical column of row r whose rendered column is m (cx = m
\* on a row without tabs): the cursor is on the first character of the
\* match, for m = 0 and for m >= 1.
C36_CursorOnMatch ==
    [][(prompt = "find" /\ SearchKey /\ buf' # <<>>
            /\ Matching(erow, buf') # {}) =>
           \E r \in Matching(erow, buf') :
               /\ cy' = r
               /\ cx' <= Len(erow[r + 1].chars)
               /\ editor_row_cx_to_rx(erow[r + 1], cx') =
                      Unwrap(Find(erow[r + 1].render, buf'))]_vars
====
